---- MODULE Spec2Model ----
(***************************************************************************)
(* f2j: FITS -> JPEG 2000 converter.                                       *)
(*                                                                         *)
(* Model of the pixel-intensity transform engine (f2j.c) and of the        *)
(* quality benchmark (benchmark.c).  The transform functions and the       *)
(* benchmark are modelled one loop iteration per step.                     *)
(*                                                                         *)
(* Numbers.  TLC integers are 32 bits wide, so                             *)
(*   - int values of the program are TLA+ integers (all values that occur  *)
(*     stay far inside the int range, except where noted);                 *)
(*   - unsigned long long values are four 16-bit limbs, least significant  *)
(*     first (U64...), added modulo 2^64 as the hardware does;             *)
(*   - a double is modelled at integer-valued arguments only, and a        *)
(*     floating-point expression is evaluated in exact real arithmetic at  *)
(*     the arguments where its value is rational (Computable); the inputs  *)
(*     of the model are drawn from those arguments.  NaN, the infinities   *)
(*     and values outside the int range are kept as classes, because the   *)
(*     conversion (int) of such a value is undefined behaviour.            *)
(***************************************************************************)
EXTENDS Integers, Sequences, FiniteSets, TLC

(***************************************************************************)
(* Bounds of the model.                                                    *)
(***************************************************************************)
\* widest plane of the transform runs
MaxWidth == 2
\* tallest plane of the transform runs
MaxHeight == 2
\* largest datamax of the grid of LINEAR calls
MaxLinearMax == 14
\* deepest data cube and largest number of stokes of the batch runs
MaxDepth == 2
MaxStokes == 2
\* calls of getIntegerGaussianNoise in a row
MaxNoiseCalls == 3
\* options -o and -jpip on a command line
MaxOptions == 3
\* magnitude of a large integer noise variate (beyond the 16-bit range)
NoiseBig == 70000
\* magnitude of a large percentage noise variate (in units of datamax-datamin)
PctBig == 100
\* the input buffers of a run start at offsets 0..MaxOffset of the sample sequence
MaxOffset == 2

(***************************************************************************)
(* Program constants.                                                      *)
(***************************************************************************)
INT_MIN == -2147483647 - 1
INT_MAX == 2147483647
\* largest intensity of a 16-bit image
Max16 == 65535
\* largest intensity of an 8-bit image
Max8 == 255
\* sign shift of signed 16-bit data
Shift16 == 32768
\* sign shift of signed 8-bit data
Shift8 == 128
\* the constant of the NEGATIVE_RAW branch of shortImgTransform
NegShort == 32767
\* the constant of the NEGATIVE_RAW branch of sByteImgTransform
NegSByte == 127
\* 1/absMin when datamin is 0: absMin = 0.000001
InvTinyAbsMin == 1000000

\* typedef enum transform
Transforms ==
    {"LOG", "NEGATIVE_LOG", "LINEAR", "NEGATIVE_LINEAR", "RAW", "NEGATIVE_RAW",
     "SQRT", "NEGATIVE_SQRT", "SQUARED", "NEGATIVE_SQUARED", "POWER",
     "NEGATIVE_POWER", "DEFAULT"}

\* BITPIX values of CFITSIO handled by createImageFromFITS, and one that is not
Bitpix ==
    {"BYTE_IMG", "SBYTE_IMG", "SHORT_IMG", "USHORT_IMG", "LONG_IMG", "ULONG_IMG",
     "LONGLONG_IMG", "FLOAT_IMG", "DOUBLE_IMG", "OTHER_IMG"}

FloatBitpix == {"FLOAT_IMG", "DOUBLE_IMG"}
RawBitpix == {"BYTE_IMG", "SBYTE_IMG", "SHORT_IMG", "USHORT_IMG"}

(***************************************************************************)
(* Integer helpers.                                                        *)
(***************************************************************************)
Abs(x) == IF x < 0 THEN -x ELSE x

\* C integer part of the real quotient a/b (b # 0): truncation toward zero,
\* which is what (int) does to an in-range double
TruncDiv(a, b) ==
    IF (a >= 0) = (b > 0)
    THEN Abs(a) \div Abs(b)
    ELSE -(Abs(a) \div Abs(b))

\* largest r with r*r <= n (n >= 0)
RECURSIVE ISqrtFrom(_, _)
ISqrtFrom(n, r) == IF (r + 1) * (r + 1) > n THEN r ELSE ISqrtFrom(n, r + 1)

ISqrt(n) == ISqrtFrom(n, 0)

IsSquare(n) == n >= 0 /\ ISqrt(n) * ISqrt(n) = n

\* n = 2^k for some k >= 0
RECURSIVE IsPow2(_)
IsPow2(n) == IF n < 1 THEN FALSE ELSE IF n = 1 THEN TRUE
             ELSE n % 2 = 0 /\ IsPow2(n \div 2)

RECURSIVE Log2(_)
Log2(n) == IF n <= 1 THEN 0 ELSE 1 + Log2(n \div 2)

(***************************************************************************)
(* unsigned long long: four 16-bit limbs, least significant first.         *)
(***************************************************************************)
Limb == 256 * 256

U64Zero == <<0, 0, 0, 0>>

\* a + b modulo 2^64
U64Add(a, b) ==
    LET s1 == a[1] + b[1]
        s2 == a[2] + b[2] + (s1 \div Limb)
        s3 == a[3] + b[3] + (s2 \div Limb)
        s4 == a[4] + b[4] + (s3 \div Limb)
    IN  <<s1 % Limb, s2 % Limb, s3 % Limb, s4 % Limb>>

\* a < b
U64Lt(a, b) ==
    \/ a[4] < b[4]
    \/ a[4] = b[4] /\ a[3] < b[3]
    \/ a[4] = b[4] /\ a[3] = b[3] /\ a[2] < b[2]
    \/ a[4] = b[4] /\ a[3] = b[3] /\ a[2] = b[2] /\ a[1] < b[1]

\* the two low limbs of a*a for 0 <= a < 2^16: the exact square, below 2^32
Sq16(a) ==
    LET ah == a \div 256
        al == a % 256
        low == 2 * ah * al * 256 + al * al
    IN  <<low % Limb, ah * ah + (low \div Limb)>>

(***************************************************************************)
(* Doubles.  The value of a floating-point expression is a class:          *)
(*   num - a finite value inside the int range; v is its integer part      *)
(*         (what (int) yields), nan - NaN, pos / neg - +infinity /         *)
(*         -infinity or a finite value beyond the int range.               *)
(* (int) of nan, pos or neg is undefined behaviour.                        *)
(***************************************************************************)
Num(v) == [c |-> "num", v |-> v]
NaN == [c |-> "nan", v |-> 0]
PosBig == [c |-> "pos", v |-> 0]
NegBig == [c |-> "neg", v |-> 0]

\* What the build makes of (int) applied to a value outside the int range:
\* "indefinite" is the x86 cvttsd2si result (INT_MIN for every such value),
\* "saturate" the result of a saturating conversion (NaN -> 0).
UBCastModes == {"indefinite", "saturate"}

\* (int) d
CastToInt(d, ub) ==
    IF d.c = "num" THEN d.v
    ELSE IF ub = "indefinite" THEN INT_MIN
    ELSE IF d.c = "nan" THEN 0
    ELSE IF d.c = "pos" THEN INT_MAX
    ELSE INT_MIN

\* base kind of a transform
BaseOf(t) ==
    CASE t = "NEGATIVE_LOG" -> "LOG"
      [] t = "NEGATIVE_LINEAR" -> "LINEAR"
      [] t = "NEGATIVE_RAW" -> "RAW"
      [] t = "NEGATIVE_SQRT" -> "SQRT"
      [] t = "NEGATIVE_SQUARED" -> "SQUARED"
      [] t = "NEGATIVE_POWER" -> "POWER"
      [] OTHER -> t

IsNegative(t) == BaseOf(t) # t

\* The product of two rounded factors.  Where the exact value of the
\* expression is 65535 (the sample that maps to the top of the range), the
\* double product scale * f(datamax) is either 65535 or falls one unit in the
\* last place short of it, and (int) then yields 65534.  Which of the two
\* depends on the rounding of both factors; it is tabulated for the ranges
\* that occur (IEEE 754 double arithmetic, round to nearest).
KnownRanges ==
    {<<-3, -3>>, <<-3, 0>>, <<-3, 1>>, <<-3, 2>>, <<-3, 15>>, <<-3, 16>>, <<-1, 2>>,
     <<0, 0>>, <<0, 1>>, <<0, 2>>, <<0, 4>>, <<0, 16>>, <<1, 1>>, <<1, 2>>, <<1, 4>>,
     <<1, 15>>, <<2, 2>>, <<2, 4>>, <<2, 15>>, <<2, 16>>}

TopShort(fam) ==
    CASE fam = "LOG" -> {<<-3, 15>>, <<0, 2>>}
      [] fam = "SQRT" -> {<<-3, 0>>, <<-1, 2>>, <<1, 4>>}
      [] fam = "SQUARED" -> {<<-3, 15>>, <<2, 15>>}
      [] fam = "POWER" -> {<<-3, 1>>, <<0, 4>>, <<1, 2>>}
      [] OTHER -> {}

Top(fam, datamin, datamax) ==
    Num(IF <<datamin, datamax>> \in TopShort(fam) THEN Max16 - 1 ELSE Max16)

\* n without its factors of two (n > 0)
RECURSIVE OddPart(_)
OddPart(n) == IF n % 2 = 0 THEN OddPart(n \div 2) ELSE n

\* 65535.0 / n is a double: the quotient has a finite binary expansion
ExactScale(n) == Max16 % OddPart(n) = 0

\* ---- LOG branch of floatDoubleTransform: absMin, zero, scale, value ----
\* absMin and zero as the code chooses them; when datamin is 0 the pair is
\* (0.000001, 0.000001), kept as den = 1 with every numerator scaled by 10^6.
LogDen(datamin) ==
    IF datamin < 0 THEN -datamin ELSE IF datamin <= 0 THEN 1 ELSE datamin

\* numerator of (x + zero) / absMin over LogDen(datamin)
LogNum(x, datamin) ==
    IF datamin < 0 THEN x + 2 * (-datamin)
    ELSE IF datamin <= 0 THEN x * InvTinyAbsMin + 1
    ELSE x

\* n/d (d > 0) is an integer power of two
IsPow2Rat(n, d) ==
    /\ n > 0
    /\ \/ n % d = 0 /\ IsPow2(n \div d)
       \/ d % n = 0 /\ IsPow2(d \div n)

\* its exponent
Log2Rat(n, d) == IF n % d = 0 THEN Log2(n \div d) ELSE -Log2(d \div n)

\* scale * log((raw + zero) / absMin), scale = 65535.0 / log((datamax + zero) / absMin)
LogValue(raw, datamin, datamax) ==
    LET den == LogDen(datamin)
        mn == LogNum(datamax, datamin)
        vn == LogNum(raw, datamin)
    IN  IF mn < 0 THEN NaN                      \* log(m) is NaN
        ELSE IF mn = 0                          \* log(m) = -inf, scale = -0.0
        THEN IF vn <= 0 THEN NaN ELSE Num(0)
        ELSE IF mn = den                        \* log(m) = 0, scale = +inf
        THEN IF vn < 0 \/ vn = den THEN NaN
             ELSE IF vn > den THEN PosBig ELSE NegBig
        ELSE IF vn < 0 THEN NaN
        ELSE IF vn = 0                          \* log(v) = -inf
        THEN IF mn > den THEN NegBig ELSE PosBig
        ELSE IF vn = den THEN Num(0)            \* log(1) = 0
        ELSE IF vn = mn THEN Top("LOG", datamin, datamax)
        ELSE Num(TruncDiv(Max16 * Log2Rat(vn, den), Log2Rat(mn, den)))

\* otherwise both arguments of log are powers of two and the quotient of the
\* logarithms is not an integer, so that rounding does not change its integer part
LogComputable(raw, datamin, datamax) ==
    LET den == LogDen(datamin)
        mn == LogNum(datamax, datamin)
        vn == LogNum(raw, datamin)
    IN  IF mn <= 0 \/ mn = den \/ vn <= 0 \/ vn = den THEN TRUE
        ELSE IF vn = mn THEN <<datamin, datamax>> \in KnownRanges
        ELSE /\ IsPow2Rat(vn, den)
             /\ IsPow2Rat(mn, den)
             /\ (Max16 * Log2Rat(vn, den)) % Abs(Log2Rat(mn, den)) # 0

\* ---- LINEAR branch: rawData[index] * scale, scale = 65535.0 / (datamax + zero) ----
\* scale is the quotient rounded to a double, and the product is rounded
\* again.  Where 65535 / d is not a double the product can fall below the
\* integer that the exact value |raw| * 65535 / d is, and (int) then yields
\* one less.  The pairs <<|raw|, d>> at which it does, for |raw| up to
\* LinearRawTabulated and d up to LinearDivTabulated (IEEE 754 double
\* arithmetic, round to nearest):
LinearShort ==
    {<<13, 13>>, <<26, 13>>, <<39, 13>>, <<52, 13>>, <<78, 13>>, <<91, 13>>,
     <<26, 26>>, <<52, 26>>, <<78, 26>>}

LinearRawTabulated == 100

LinearDivTabulated == 40

LinearValue(raw, datamin, datamax) ==
    LET zero == IF datamin < 0 THEN -datamin ELSE 0
        d == datamax + zero
        q == TruncDiv(raw * Max16, d)
    IN  IF d = 0                                \* scale = +inf
        THEN IF raw = 0 THEN NaN ELSE IF raw > 0 THEN PosBig ELSE NegBig
        ELSE IF <<Abs(raw), d>> \in LinearShort
        THEN Num(IF raw > 0 THEN q - 1 ELSE q + 1)
        ELSE Num(q)

LinearComputable(raw, datamin, datamax) ==
    LET zero == IF datamin < 0 THEN -datamin ELSE 0
        d == datamax + zero
    IN  d = 0 \/ ExactScale(Abs(d))

\* LinearValue is also the value of the C expression inside the table
LinearTabulated(raw, datamin, datamax) ==
    LET zero == IF datamin < 0 THEN -datamin ELSE 0
        d == datamax + zero
    IN  /\ Abs(raw) <= LinearRawTabulated
        /\ d >= 0
        /\ d <= LinearDivTabulated \/ ExactScale(d)

\* ---- SQRT branch: scale * sqrt(rawData[index] - datamin),
\*      scale = 65535.0 / sqrt(datamax - datamin), 0.0 when datamin = datamax ----
SqrtValue(raw, datamin, datamax) ==
    IF datamin = datamax                        \* scale = 0.0
    THEN IF raw < datamin THEN NaN ELSE Num(0)
    ELSE IF datamax < datamin \/ raw < datamin THEN NaN
    ELSE IF raw = datamin THEN Num(0)
    ELSE IF raw = datamax THEN Top("SQRT", datamin, datamax)
    ELSE Num((Max16 * ISqrt(raw - datamin)) \div ISqrt(datamax - datamin))

SqrtComputable(raw, datamin, datamax) ==
    IF datamin = datamax \/ datamax < datamin \/ raw <= datamin THEN TRUE
    ELSE IF raw = datamax THEN <<datamin, datamax>> \in KnownRanges
    ELSE /\ IsSquare(raw - datamin)
         /\ IsSquare(datamax - datamin)
         /\ ExactScale(ISqrt(datamax - datamin))

\* ---- SQUARED branch: scale * (rawData[index]-datamin) * (rawData[index]-datamin),
\*      scale = 65535.0 / ((datamax-datamin)*(datamax-datamin)), 0.0 when datamin = datamax ----
SquaredValue(raw, datamin, datamax) ==
    IF datamin = datamax \/ raw = datamin THEN Num(0)
    ELSE IF Abs(raw - datamin) = Abs(datamax - datamin)
    THEN Top("SQUARED", datamin, datamax)
    ELSE Num((Max16 * (raw - datamin) * (raw - datamin))
                 \div ((datamax - datamin) * (datamax - datamin)))

SquaredComputable(raw, datamin, datamax) ==
    IF datamin = datamax \/ raw = datamin THEN TRUE
    ELSE IF Abs(raw - datamin) = Abs(datamax - datamin)
    THEN <<datamin, datamax>> \in KnownRanges
    ELSE IsPow2(Abs(datamax - datamin))

\* ---- POWER branch: scale * exp(rawData[index]) + offset ----
\* e^ExpBeyondInt > 2^31 / 65535
ExpBeyondInt == 11

PowerValue(raw, datamin, datamax) ==
    IF datamin = datamax                        \* scale = offset = 0.0
    THEN (IF raw >= 710 THEN NaN ELSE Num(0))   \* exp(710) is infinite, 0.0 * inf is NaN
    ELSE IF raw = datamin THEN Num(0)
    ELSE IF raw = datamax THEN Top("POWER", datamin, datamax)
    ELSE PosBig

PowerComputable(raw, datamin, datamax) ==
    IF datamin = datamax THEN TRUE
    \* beyond 690 exp or the quotients overflow or underflow
    ELSE IF Abs(datamin) > 690 \/ Abs(datamax) > 690 THEN FALSE
    ELSE IF raw = datamin THEN TRUE
    ELSE IF raw = datamax THEN <<datamin, datamax>> \in KnownRanges
    ELSE datamax > datamin /\ raw >= datamax + ExpBeyondInt

\* the value converted by (int) in the branch of base kind fam
FloatValue(fam, raw, datamin, datamax) ==
    CASE fam = "LOG" -> LogValue(raw, datamin, datamax)
      [] fam = "LINEAR" -> LinearValue(raw, datamin, datamax)
      [] fam = "SQRT" -> SqrtValue(raw, datamin, datamax)
      [] fam = "SQUARED" -> SquaredValue(raw, datamin, datamax)
      [] fam = "POWER" -> PowerValue(raw, datamin, datamax)

\* The divisor of the quotient that defines scale is zero: in the LOG branch
\* log((datamax+zero)/absMin) is log(1), in the LINEAR branch datamax+zero is
\* 0; the SQRT, SQUARED and POWER branches divide only if datamin != datamax,
\* and in the POWER branch exp(datamax) - exp(datamin) is then still 0.0 if
\* both exp underflow to 0.0 (exp(x) is 0.0 for the integers x <= -746).
ScaleDivisorIsZero(fam, datamin, datamax) ==
    CASE fam = "LOG" -> LogNum(datamax, datamin) = LogDen(datamin)
      [] fam = "LINEAR" -> datamax + (IF datamin < 0 THEN -datamin ELSE 0) = 0
      [] fam = "POWER" -> datamin # datamax /\ datamin <= -746 /\ datamax <= -746
      [] OTHER -> FALSE

\* the arguments at which FloatValue is the value of the C expression
Computable(fam, raw, datamin, datamax) ==
    CASE fam = "LOG" -> LogComputable(raw, datamin, datamax)
      [] fam = "LINEAR" -> LinearComputable(raw, datamin, datamax)
      [] fam = "SQRT" -> SqrtComputable(raw, datamin, datamax)
      [] fam = "SQUARED" -> SquaredComputable(raw, datamin, datamax)
      [] fam = "POWER" -> PowerComputable(raw, datamin, datamax)
      [] OTHER -> TRUE

(***************************************************************************)
(* Random number generators.  gsl's mt19937 is a deterministic function of *)
(* its seed; the variates of the model are a few values, in an order the   *)
(* seed selects.                                                           *)
(***************************************************************************)
Seeds == {0, 1}

IntNoiseSample == <<NoiseBig, 0, -NoiseBig, 1>>

PctNoiseSample == <<PctBig, 0, -PctBig>>

\* the k-th variate (k = 0, 1, ...) of a generator seeded with seed
Variate(sample, seed, k) == sample[((seed + k) % Len(sample)) + 1]

\* a pointer argument: NULL, or the address of a value
NullArg == [set |-> FALSE, v |-> 0]

Ptr(x) == [set |-> TRUE, v |-> x]

\* the static variables of getIntegerGaussianNoise at program start
NoiseStaticsInit ==
    [initialised |-> FALSE, db |-> 0, noiseSet |-> FALSE, noiseDev |-> <<0, 0>>,
     maxPixelIntensity |-> 0, maxIntensitySet |-> FALSE,
     generatorSeed |-> 0, seedSet |-> FALSE, rSeed |-> 0, rCalls |-> 0]

\* mutant of getIntegerGaussianNoise: the generator is initialised as soon as
\* one of the noise level and the maximum intensity is set
getIntegerGaussianNoise_eitherSet(st, noiseDB, maxIntensity, seed, now) ==
    IF st.initialised
    THEN [st |-> [st EXCEPT !.rCalls = @ + 1],
          ret |-> Variate(IntNoiseSample, st.rSeed, st.rCalls)]
    ELSE LET s1 == IF seed.set
                   THEN [st EXCEPT !.generatorSeed = seed.v, !.seedSet = TRUE]
                   ELSE st
             s2 == IF noiseDB.set
                   THEN [s1 EXCEPT !.db = noiseDB.v, !.noiseSet = TRUE]
                   ELSE s1
             s3 == IF maxIntensity.set
                   THEN [s2 EXCEPT !.maxPixelIntensity = maxIntensity.v,
                                   !.maxIntensitySet = TRUE]
                   ELSE s2
             s4 == IF s3.noiseSet \/ s3.maxIntensitySet
                   THEN [s3 EXCEPT !.initialised = TRUE,
                                   !.rSeed = IF s3.seedSet THEN s3.generatorSeed ELSE now,
                                   !.noiseDev = <<s3.maxPixelIntensity, s3.db>>]
                   ELSE s3
         IN  [st |-> s4, ret |-> 0]

\* getIntegerGaussianNoise(noiseDB, maxIntensity, seed); now is time(NULL).
\* noiseDev = maxPixelIntensity * 10^(-0.05 db) is kept as the pair it is computed from.
getIntegerGaussianNoise(st, noiseDB, maxIntensity, seed, now) ==
    IF st.initialised
    THEN [st |-> [st EXCEPT !.rCalls = @ + 1],
          ret |-> Variate(IntNoiseSample, st.rSeed, st.rCalls)]
    ELSE LET s1 == IF seed.set
                   THEN [st EXCEPT !.generatorSeed = seed.v, !.seedSet = TRUE]
                   ELSE st
             s2 == IF noiseDB.set
                   THEN [s1 EXCEPT !.db = noiseDB.v, !.noiseSet = TRUE]
                   ELSE s1
             s3 == IF maxIntensity.set
                   THEN [s2 EXCEPT !.maxPixelIntensity = maxIntensity.v,
                                   !.maxIntensitySet = TRUE]
                   ELSE s2
             s4 == IF s3.noiseSet /\ s3.maxIntensitySet
                   THEN [s3 EXCEPT !.initialised = TRUE,
                                   !.rSeed = IF s3.seedSet THEN s3.generatorSeed ELSE now,
                                   !.noiseDev = <<s3.maxPixelIntensity, s3.db>>]
                   ELSE s3
         IN  [st |-> s4, ret |-> 0]

\* GET_INTEGER_GAUSSIAN_NOISE()
GET_INTEGER_GAUSSIAN_NOISE(st, now) ==
    getIntegerGaussianNoise(st, NullArg, NullArg, NullArg, now)

\* the static generator of getPctGaussianNoise at program start
PctRngInit == [allocated |-> FALSE, seed |-> 0, calls |-> 0]

\* getPctGaussianNoise(); pctOn: gaussianNoisePctStdDeviation is not (close to) 0
getPctGaussianNoise(rng, pctOn, now) ==
    IF ~pctOn THEN [rng |-> rng, ret |-> 0]
    ELSE LET r1 == IF rng.allocated THEN rng
                   ELSE [allocated |-> TRUE, seed |-> now + 100, calls |-> 0]
         IN  [rng |-> [r1 EXCEPT !.calls = @ + 1],
              ret |-> Variate(PctNoiseSample, r1.seed, r1.calls)]

(***************************************************************************)
(* Macros of the transform functions.                                      *)
(***************************************************************************)
\* mutant of FIT_TO_RANGE: the value is left as it is
FIT_TO_RANGE_unclamped(min, max, var) == var

\* FIT_TO_RANGE(min,max,var): the new value of var
FIT_TO_RANGE(min, max, var) ==
    IF var < min THEN min ELSE IF var > max THEN max ELSE var

\* mutant of UPDATE_FLIPPING_INDEX: at the end of a row the index stays in the row
UPDATE_FLIPPING_INDEX_sameRow(index, dif, width) ==
    IF dif + 1 >= width
    THEN <<index + 1 - width, 0>>
    ELSE <<index + 1, dif + 1>>

\* UPDATE_FLIPPING_INDEX(): the new <<index, dif>>.  index is a size_t; a
\* negative value here stands for that value modulo 2^64.
UPDATE_FLIPPING_INDEX(index, dif, width) ==
    IF dif + 1 >= width
    THEN <<index + 1 - 2 * width, 0>>
    ELSE <<index + 1, dif + 1>>

\* ADD_GAUSSIAN_NOISE_TO_RAW_VALUES: the new rawData[index], g the variate
ADD_GAUSSIAN_NOISE_TO_RAW_VALUES(raw, pctOn, g, datamin, datamax) ==
    IF ~pctOn THEN raw
    ELSE LET r1 == raw + (datamax - datamin) * g
             r2 == IF r1 > datamax THEN datamax ELSE r1
         IN  IF r2 < datamin THEN datamin ELSE r2

\* the intensity range of the image written for a source type
MaxIntensity(bitpix) ==
    IF bitpix \in {"BYTE_IMG", "SBYTE_IMG"} THEN Max8 ELSE Max16

\* The right-hand side of the assignment to imageData[ii] in the RAW and
\* NEGATIVE_RAW branches of the integer transform functions, before the
\* noise term is added.
byteImgTransform(t, raw) == IF t = "RAW" THEN raw ELSE Max8 - raw

sByteImgTransform(t, raw) == IF t = "RAW" THEN Shift8 + raw ELSE NegSByte + raw

\* mutant of shortImgTransform: RAW shifts by 32767
shortImgTransform_shift32767(t, raw) == IF t = "RAW" THEN raw + NegShort ELSE NegShort - raw

shortImgTransform(t, raw) == IF t = "RAW" THEN raw + Shift16 ELSE NegShort - raw

uShortImgTransform(t, raw) == IF t = "RAW" THEN raw ELSE Max16 - raw

IntExpr(bitpix, t, raw) ==
    CASE bitpix = "BYTE_IMG" -> byteImgTransform(t, raw)
      [] bitpix = "SBYTE_IMG" -> sByteImgTransform(t, raw)
      [] bitpix = "SHORT_IMG" -> shortImgTransform(t, raw)
      [] bitpix = "USHORT_IMG" -> uShortImgTransform(t, raw)

\* the transform function of the source type has a branch for transform t
Supported(bitpix, t) ==
    \/ bitpix \in RawBitpix /\ t \in {"RAW", "NEGATIVE_RAW"}
    \/ bitpix \in FloatBitpix /\ BaseOf(t) \in {"LOG", "LINEAR", "SQRT", "SQUARED", "POWER"}

\* One iteration of the loop of floatDoubleTransform, after the raw noise:
\* conversion, clamp, integer noise n, inversion.
\* <<imageData[ii], |imageData[ii] - oldValue|>>
FloatPixel(t, raw, datamin, datamax, n, ub) ==
    LET v0 == CastToInt(FloatValue(BaseOf(t), raw, datamin, datamax), ub)
        v1 == FIT_TO_RANGE(0, Max16, v0)
        v2 == FIT_TO_RANGE(0, Max16, v1 + n)
    IN  <<IF IsNegative(t) THEN Max16 - v2 ELSE v2, Abs(v2 - v1)>>

\* One iteration of the loop of an integer transform function
IntPixel(bitpix, t, raw, n) ==
    FIT_TO_RANGE(0, MaxIntensity(bitpix), IntExpr(bitpix, t, raw) + n)

(***************************************************************************)
(* State.                                                                  *)
(***************************************************************************)
VARIABLES
    \* --- the build and the environment ---
    ubCast,               \* what (int) yields for a value outside the int range
    clock,                \* time(NULL)
    \* --- f2j: command line, globals and the statics of the noise functions ---
    argv,                 \* the parsed command line
    ns,                   \* statics of getIntegerGaussianNoise
    pctRng,               \* static generator of getPctGaussianNoise
    printNoiseBenchmark,  \* global
    \* --- f2j: the FITS plane being converted and createImageFromFITS ---
    fits,                 \* the plane in the file: type, size, header range, pixels
    transform,            \* the transform after DEFAULT is resolved
    datamin,
    datamax,
    rawData,              \* imageArray
    imageData,            \* imageStruct->comps[0].data: the elements written so far
    ii,
    index,
    dif,
    squareNoiseSum,
    noiseOut,             \* what PRINT_NOISE_BENCHMARK printed, <<>> if nothing
    tpc,                  \* position: "main", "create", "enter", "loop", "done",
                          \* or "fault" after a read that killed the process
    ret,                  \* result of createImageFromFITS, -1 while running
    \* --- history: the index read and the integer noise added at each iteration ---
    srcIdx,
    noiseAdded,
    scanIdx               \* the indices of imageArray read by the search for datamin, datamax

VARIABLES
    \* --- the build ---
    mulUB,                \* what the build makes of an overflowing int product
    \* --- benchmark: the arguments of performQualityBenchmarking and the file ---
    image,                \* the uncompressed image (header fields), or NULL
    compressedFile,       \* the name of the compressed file: the characters before its last dot
    parameters,           \* the quality_benchmark_info handed to the function
    decoded,              \* what readJ2K gets from the compressed file
    \* --- benchmark: locals of performQualityBenchmarking ---
    pixelsComparable,
    canWriteResidual,
    bi,                   \* ii, the component index
    compUC,               \* image->comps[ii]
    compC,                \* compressedImage->comps[ii]
    pixels,
    maxPixValue,
    resMin,
    resMax,
    squaredError,
    comparisonSuccessful,
    bj,                   \* jj, the pixel index
    residual,             \* residualImage.comps[ii].data: the elements written so far
    \* --- benchmark: output ---
    diag,                 \* the diagnostics printed about the image pair
    report,               \* per component: "dimensions", "signed", "overflow", "metrics"
    compOut,              \* the metrics line printed for the current component, or <<>>
    residualWritten,      \* the residual image was encoded and written
    residualImage,        \* the header of the image handed to the encoder, <<>> if none was
    bpc,                  \* position: "idle", "call", "comp", "loop", "done",
                          \* or "fault" after a write that killed the process
    bret,                 \* result of performQualityBenchmarking, -1 while running
    \* --- history of the current component ---
    trueSum,              \* the unbounded sum of the terms added to squaredError
    exactSE,              \* the sum of the squares of the pixel differences
    overflowAt            \* jj at the first detected overflow, -1 if none

bvars == <<mulUB, compressedFile, residualImage, parameters, image, decoded, pixelsComparable, canWriteResidual, bi, compUC, compC,
           pixels, maxPixValue, resMin, resMax, squaredError, comparisonSuccessful, bj,
           residual, diag, report, compOut, residualWritten, bpc, bret, trueSum,
           exactSE, overflowAt>>

tvars == <<ubCast, clock, argv, ns, pctRng, printNoiseBenchmark, fits, transform,
           datamin, datamax, rawData, imageData, ii, index, dif, squareNoiseSum,
           noiseOut, tpc, ret, srcIdx, noiseAdded, scanIdx>>

VARIABLES
    \* --- f2j: main, the planes of the file one after the other ---
    cube,                 \* cube_info: naxis, depth, stokes
    opts,                 \* the command line: -x, -y, -S1, -S2 (-1 if absent), -LL given, -QB given
    startFrame,
    endFrame,
    startStoke,
    endStoke,
    frameNumber,          \* ii of main's loop
    stokeNumber,          \* jj of main's loop
    mpc,                  \* position: "idle", "select", "plane2d", "loop", "exit", "killed"
    exitStatus,           \* argument of exit(), -1 while running
    \* --- history ---
    calls,                \* the calls of setupCompression: frame, stoke, what happened, result
    heap                  \* for each buffer of the last call: <<times allocated, times released>>

mvars == <<cube, opts, startFrame, endFrame, startStoke, endStoke, frameNumber, stokeNumber,
           mpc, exitStatus, calls, heap>>

VARIABLES
    \* --- history: the calls of getIntegerGaussianNoise made one by one ---
    noiseCalls,           \* for each call: its arguments, what it returned, the statics after it
    \* --- parse_cmdline_encoder: the options that select the output ---
    cmdline,              \* the options of the command line, in order
    optind,               \* the option opj_getopt_long returns next
    cparameters,          \* opj_cparameters_t: cod_format, jpip_on
    pret                  \* result of parse_cmdline_encoder, -1 while running

xvars == <<noiseCalls, cmdline, optind, cparameters, pret>>

vars == <<tvars, bvars, mvars, xvars>>

(***************************************************************************)
(* Inputs of main's loop over the planes.                                  *)
(***************************************************************************)
\* the buffers setupCompression and the functions it calls allocate for a plane
Buffers ==
    {"frame.comps", "frame.comps[0].data", "imageArray", "compressedImage",
     "residualImage.comps", "residualImage.comps[0].data"}

NoHeap == [b \in Buffers |-> <<0, 0>>]

\* a command line without options; qb says that -QB is absent, not what
\* main's quality_benchmark_info holds
NoOpts == [x |-> -1, y |-> -1, s1 |-> -1, s2 |-> -1, ll |-> FALSE, qb |-> FALSE]

\* main is not running
BatchIdle ==
    /\ cube = [naxis |-> 2, depth |-> 1, stokes |-> 1]
    /\ opts = NoOpts
    /\ startFrame = -1
    /\ endFrame = -1
    /\ startStoke = -1
    /\ endStoke = -1
    /\ frameNumber = 0
    /\ stokeNumber = 0
    /\ mpc = "idle"
    /\ exitStatus = -1
    /\ calls = <<>>
    /\ heap = NoHeap

\* no direct call of getIntegerGaussianNoise is recorded, and the command line
\* has no option that selects the output: JP2, no JPIP index
ParserIdle ==
    /\ noiseCalls = <<>>
    /\ cmdline = <<>>
    /\ optind = 1
    /\ cparameters = [cod_format |-> "CODEC_JP2", jpip_on |-> FALSE]
    /\ pret = 0

(***************************************************************************)
(* Inputs of the transform runs.                                           *)
(***************************************************************************)
\* sample values of each source type, the type's minimum and maximum included
ByteSample == <<0, 1, 127, 128, 255>>

SByteSample == <<-128, -1, 0, 1, 127>>

ShortSample == <<-32768, -1, 0, 1, 32767>>

UShortSample == <<0, 1, 32767, 32768, 65535>>

WideSample == <<-70000, 0, 70000>>

FloatSample == <<-3, 0, 1, 2, 4, 15, 16>>

\* DATAMIN, DATAMAX of the header, when present; the keywords are not
\* validated, so that the pair may be in either order
HeaderRanges == {<<0, 4>>, <<1, 4>>, <<-1, 2>>, <<2, 2>>, <<4, 1>>}

IntSample(bitpix) ==
    CASE bitpix = "BYTE_IMG" -> ByteSample
      [] bitpix = "SBYTE_IMG" -> SByteSample
      [] bitpix = "SHORT_IMG" -> ShortSample
      [] bitpix = "USHORT_IMG" -> UShortSample
      [] OTHER -> WideSample

\* n elements of sample, cyclically from offset off
Cyc(sample, off, n) ==
    [k \in 1..n |-> sample[((off + k - 1) % Len(sample)) + 1]]

\* values found in the memory next to a buffer
StraySample == {0, 1}

\* the value of the one keyword of a header that lacks the other
PartialRange == <<1, 4>>

\* the loop of createImageFromFITS that finds datamax / datamin
RECURSIVE FindMax(_, _, _)
FindMax(a, jj, m) ==
    IF jj > Len(a) THEN m
    ELSE FindMax(a, jj + 1, IF a[jj] > m THEN a[jj] ELSE m)

RECURSIVE FindMin(_, _, _)
FindMin(a, jj, m) ==
    IF jj > Len(a) THEN m
    ELSE FindMin(a, jj + 1, IF a[jj] < m THEN a[jj] ELSE m)

\* findMinMax: *status after the reads of DATAMAX and of DATAMIN is not 0.
\* An absent key sets *status, and fits_read_key does nothing when it is
\* called with *status already set.
FindMinMax(f) ==
    LET afterMax == ~f.hasMax
        afterMin == afterMax \/ ~f.hasMin
    IN  afterMin

\* mutant of RangeOf: each keyword is used when it is present
RangeOf_eachKey(f) ==
    <<IF f.hasMin THEN f.hmin ELSE FindMin(f.pixels, 2, f.pixels[1]),
      IF f.hasMax THEN f.hmax ELSE FindMax(f.pixels, 2, f.pixels[1])>>

\* datamin and datamax as createImageFromFITS determines them for plane f
RangeOf(f) ==
    IF ~FindMinMax(f) THEN <<f.hmin, f.hmax>>
    ELSE <<FindMin(f.pixels, 2, f.pixels[1]), FindMax(f.pixels, 2, f.pixels[1])>>

\* mutant of Resolve: DEFAULT becomes RAW for every type
Resolve_alwaysRaw(bitpix, t) ==
    IF t # "DEFAULT" THEN t ELSE "RAW"

\* the transform createImageFromFITS uses for a requested transform
Resolve(bitpix, t) ==
    IF t # "DEFAULT" THEN t
    ELSE IF bitpix \in FloatBitpix THEN "LOG" ELSE "RAW"

\* command lines: the noise options
NoiseDBs == {20}

Argvs ==
    {[transform |-> t, noiseSet |-> n, noiseDB |-> IF n THEN db ELSE 0,
      seedSet |-> ss, seed |-> sd, pctOn |-> p] :
        t \in Transforms, n \in BOOLEAN, db \in NoiseDBs, ss \in BOOLEAN,
        sd \in Seeds, p \in BOOLEAN}

\* one command line for each behaviour: the seed is only read with -noise,
\* and its value only when given
ArgvOk(a, clk) ==
    /\ a.seedSet => a.noiseSet
    /\ ~a.seedSet => a.seed = 0
    /\ (clk # 0) => (a.pctOn \/ (a.noiseSet /\ ~a.seedSet))

QuietArgv(t) ==
    [transform |-> t, noiseSet |-> FALSE, noiseDB |-> 0,
     seedSet |-> FALSE, seed |-> 0, pctOn |-> FALSE]

\* the planes of an integer type
IntPlanes(bitpix) ==
    {[bitpix |-> bitpix, width |-> w, height |-> h, hasMax |-> FALSE, hasMin |-> FALSE,
      hmin |-> 0, hmax |-> 0, pixels |-> Cyc(IntSample(bitpix), off, w * h)] :
        w \in 1..MaxWidth, h \in 1..MaxHeight, off \in 0..MaxOffset}

\* the floating-point planes on which transform t is computable
FloatPlanes(bitpix, t) ==
    LET fam == BaseOf(Resolve(bitpix, t))
        Declared ==
            UNION {
              LET Good(x) == Computable(fam, x, r[1], r[2])
                  cands == SelectSeq(FloatSample, Good)
              IN  {[bitpix |-> bitpix, width |-> w, height |-> h, hasMax |-> TRUE, hasMin |-> TRUE,
                    hmin |-> r[1], hmax |-> r[2], pixels |-> Cyc(cands, off, w * h)] :
                      w \in 1..MaxWidth, h \in 1..MaxHeight, off \in 0..MaxOffset}
              : r \in HeaderRanges}
        Scanned ==
            {f \in {[bitpix |-> bitpix, width |-> w, height |-> h, hasMax |-> FALSE, hasMin |-> FALSE,
                     hmin |-> 0, hmax |-> 0, pixels |-> Cyc(FloatSample, off, w * h)] :
                       w \in 1..MaxWidth, h \in 1..MaxHeight, off \in 0..MaxOffset} :
               \A k \in 1..Len(f.pixels) :
                   Computable(fam, f.pixels[k], RangeOf(f)[1], RangeOf(f)[2])}
        \* only one of the two keywords in the header
        Partial ==
            {[f EXCEPT !.hasMax = k[1], !.hasMin = k[2],
                       !.hmin = PartialRange[1], !.hmax = PartialRange[2]] :
                f \in {g \in Scanned : g.pixels[1] = FloatSample[1]},
                k \in {<<TRUE, FALSE>>, <<FALSE, TRUE>>}}
    IN  \* percentage noise can turn a sample into datamin or datamax
        {f \in Declared \cup Scanned \cup Partial :
            /\ Computable(fam, RangeOf(f)[1], RangeOf(f)[1], RangeOf(f)[2])
            /\ Computable(fam, RangeOf(f)[2], RangeOf(f)[1], RangeOf(f)[2])}

\* the planes of no pixels: NAXIS1 or NAXIS2 of the header is 0
EmptyPlanes ==
    {[bitpix |-> b, width |-> geo[1], height |-> geo[2], hasMax |-> k[1], hasMin |-> k[2],
      hmin |-> PartialRange[1], hmax |-> PartialRange[2], pixels |-> <<>>] :
        b \in {"DOUBLE_IMG", "FLOAT_IMG", "SHORT_IMG"},
        geo \in {<<0, 1>>, <<1, 0>>},
        k \in {<<TRUE, TRUE>>, <<TRUE, FALSE>>, <<FALSE, FALSE>>}}

(***************************************************************************)
(* The benchmark before performQualityBenchmarking is called.              *)
(***************************************************************************)
NoImage ==
    [null |-> TRUE, ok |-> FALSE, x0 |-> 0, x1 |-> 0, y0 |-> 0, y1 |-> 0,
     numcomps |-> 0, color_space |-> "CLRSPC_GRAY", icc_profile_len |-> 0]

NoComp == [w |-> 0, h |-> 0, prec |-> 0, sgnd |-> 0, data |-> <<>>]

U80Zero == <<0, 0, 0, 0, 0>>

\* the benchmarks of quality_benchmark_info
MetricFlags ==
    {"meanSquaredError", "rootMeanSquaredError", "peakSignalToNoiseRatio",
     "meanAbsoluteError", "fidelity", "maximumAbsoluteDistortion", "squaredError",
     "absoluteError", "squaredIntensitySum"}

\* a quality_benchmark_info in which the benchmarks of on read true;
\* performQualityBenchmarking is set by the option parser with each of them
Selected(on, res) ==
    [m \in MetricFlags \cup {"performQualityBenchmarking", "writeResidual"} |->
        IF m = "performQualityBenchmarking" THEN on # {}
        ELSE IF m = "writeResidual" THEN res
        ELSE m \in on]

\* every field reads false.  The variable is held at this value in the runs
\* in which the structure is never read; where main's structure is read (the
\* runs over the planes of a file) its values are ParsedParameters.
NoParameters == Selected({}, FALSE)

\* the selections handed to performQualityBenchmarking: those of QB_NI, of
\* QB_MAE and of QB_RES.  setupCompression
\* calls the function only if performQualityBenchmarking or writeResidual is set.
ParametersSample ==
    {Selected({"fidelity", "maximumAbsoluteDistortion", "meanAbsoluteError",
               "meanSquaredError", "peakSignalToNoiseRatio", "rootMeanSquaredError"},
              FALSE),
     Selected({"meanAbsoluteError"}, FALSE),
     Selected({}, TRUE)}

BenchmarkIdle ==
    /\ pixelsComparable = TRUE
    /\ canWriteResidual = TRUE
    /\ bi = 0
    /\ compUC = NoComp
    /\ compC = NoComp
    /\ pixels = 0
    /\ maxPixValue = 1
    /\ resMin = 0
    /\ resMax = 0
    /\ squaredError = U64Zero
    /\ comparisonSuccessful = TRUE
    /\ bj = 0
    /\ residual = <<>>
    /\ diag = {}
    /\ report = <<>>
    /\ compOut = <<>>
    /\ residualWritten = FALSE
    /\ residualImage = <<>>
    /\ bret = -1
    /\ trueSum = U80Zero
    /\ exactSE = U64Zero
    /\ overflowAt = -1

(***************************************************************************)
(* The transform runs: main's noise set-up, then createImageFromFITS on    *)
(* one plane, the transform function one loop iteration per step.          *)
(***************************************************************************)
TransformIdle ==
    /\ ns = NoiseStaticsInit
    /\ pctRng = PctRngInit
    /\ printNoiseBenchmark = FALSE
    /\ transform = "DEFAULT"
    /\ datamin = 0
    /\ datamax = 0
    /\ rawData = <<>>
    /\ imageData = <<>>
    /\ ii = 0
    /\ index = 0
    /\ dif = 0
    /\ squareNoiseSum = U64Zero
    /\ noiseOut = <<>>
    /\ ret = -1
    /\ srcIdx = <<>>
    /\ noiseAdded = <<>>
    /\ scanIdx = {}

\* The inputs: a build, a command line and a plane.  A plane whose type or
\* transform is not handled is converted without noise options.
TransformInputs ==
    \/ /\ fits \in UNION {IntPlanes(b) : b \in RawBitpix}
       /\ argv \in {a \in Argvs : a.transform \in {"RAW", "NEGATIVE_RAW", "DEFAULT"}}
       /\ clock \in Seeds
       /\ ArgvOk(argv, clock)
       /\ ubCast = "indefinite"
    \/ /\ argv \in {a \in Argvs : Supported("DOUBLE_IMG", Resolve("DOUBLE_IMG", a.transform))}
       /\ fits \in UNION {FloatPlanes(b, argv.transform) : b \in FloatBitpix}
       /\ clock \in Seeds
       /\ ArgvOk(argv, clock)
       /\ ubCast \in UBCastModes
    \/ /\ fits \in EmptyPlanes
       /\ argv \in {QuietArgv(t) : t \in {"DEFAULT", "LINEAR", "NEGATIVE_RAW"}}
       /\ clock = 0
       /\ ubCast = "indefinite"
    \/ /\ \E b \in Bitpix, t \in Transforms :
            /\ ~Supported(b, Resolve(b, t))
            /\ argv = QuietArgv(t)
            /\ fits = [bitpix |-> b, width |-> 1, height |-> 1, hasMax |-> FALSE, hasMin |-> FALSE,
                       hmin |-> 0, hmax |-> 0, pixels |-> <<0>>]
       /\ clock = 0
       /\ ubCast = "indefinite"

\* main: the noise options of the command line reach getIntegerGaussianNoise
MainNoiseInit ==
    /\ tpc = "main"
    /\ UNCHANGED <<bvars, mvars, xvars>>
    /\ LET n1 == IF argv.noiseSet
                 THEN getIntegerGaussianNoise(ns, Ptr(argv.noiseDB), NullArg, NullArg, clock).st
                 ELSE ns
           n2 == IF argv.noiseSet /\ argv.seedSet
                 THEN getIntegerGaussianNoise(n1, NullArg, NullArg, Ptr(argv.seed), clock).st
                 ELSE n1
       IN  ns' = n2
    /\ printNoiseBenchmark' = argv.noiseSet
    /\ tpc' = "create"
    /\ UNCHANGED <<ubCast, clock, argv, pctRng, fits, transform, datamin, datamax,
                   rawData, imageData, ii, index, dif, squareNoiseSum, noiseOut,
                   ret, srcIdx, noiseAdded, scanIdx>>

\* createImageFromFITS on a plane of no pixels, width * height being 0.
\* malloc(0) returns a null pointer or a pointer to no element, as the C
\* library chooses.  The search for datamin and datamax starts by reading
\* imageArray[0], which does not exist: the read yields what lies there, or
\* the process is killed.
CreateImageFromEmptyPlane ==
    /\ transform' = Resolve(fits.bitpix, argv.transform)
    /\ \/ \* malloc returned NULL: "Unable to allocate memory"
          /\ ret' = 1
          /\ tpc' = "done"
          /\ ns' = IF fits.bitpix \in FloatBitpix THEN ns
                   ELSE getIntegerGaussianNoise(ns, NullArg, Ptr(MaxIntensity(fits.bitpix)),
                                                NullArg, clock).st
          /\ datamin' = IF fits.bitpix \in FloatBitpix /\ ~FindMinMax(fits)
                        THEN fits.hmin ELSE datamin
          /\ datamax' = IF fits.bitpix \in FloatBitpix /\ ~FindMinMax(fits)
                        THEN fits.hmax ELSE datamax
          /\ UNCHANGED <<rawData, scanIdx>>
       \/ /\ fits.bitpix \in FloatBitpix /\ FindMinMax(fits)
          /\ scanIdx' = {0}
          /\ \/ /\ tpc' = "fault"
                /\ UNCHANGED <<ns, datamin, datamax, rawData, ret>>
             \/ /\ datamax' \in StraySample
                /\ datamin' \in StraySample
                /\ ns' = getIntegerGaussianNoise(ns, NullArg,
                              Ptr(MaxIntensity(fits.bitpix)), NullArg, clock).st
                /\ rawData' = fits.pixels
                /\ tpc' = "enter"
                /\ UNCHANGED ret
       \/ /\ ~(fits.bitpix \in FloatBitpix /\ FindMinMax(fits))
          /\ datamin' = IF fits.bitpix \in FloatBitpix THEN fits.hmin ELSE 0
          /\ datamax' = IF fits.bitpix \in FloatBitpix THEN fits.hmax ELSE 0
          /\ ns' = getIntegerGaussianNoise(ns, NullArg, Ptr(MaxIntensity(fits.bitpix)),
                                           NullArg, clock).st
          /\ rawData' = fits.pixels
          /\ tpc' = "enter"
          /\ UNCHANGED <<ret, scanIdx>>

\* createImageFromFITS up to the call of the transform function.
\* For LONG_IMG and ULONG_IMG the buffer is allocated with sizeof(int) or
\* sizeof(unsigned int) bytes per pixel and fits_read_pix is asked for TLONG
\* or TULONG, elements of type long: where a long is wider than an int the
\* read writes beyond the end of the buffer, and the process is killed there
\* or goes on to the transform function.
CreateImageFromFITS ==
    /\ tpc = "create"
    /\ UNCHANGED <<bvars, mvars, xvars>>
    /\ IF fits.bitpix = "OTHER_IMG"
       THEN /\ ret' = 1
            /\ tpc' = "done"
            /\ UNCHANGED <<ns, transform, datamin, datamax, rawData, scanIdx>>
       ELSE IF Len(fits.pixels) = 0
       THEN CreateImageFromEmptyPlane
       ELSE
         \/ /\ fits.bitpix \in {"LONG_IMG", "ULONG_IMG"}
            /\ transform' = Resolve(fits.bitpix, argv.transform)
            /\ ns' = getIntegerGaussianNoise(ns, NullArg, Ptr(MaxIntensity(fits.bitpix)),
                                             NullArg, clock).st
            /\ tpc' = "fault"
            /\ UNCHANGED <<datamin, datamax, rawData, scanIdx, ret>>
         \/ /\ transform' = Resolve(fits.bitpix, argv.transform)
            /\ ns' = getIntegerGaussianNoise(ns, NullArg, Ptr(MaxIntensity(fits.bitpix)),
                                             NullArg, clock).st
            /\ rawData' = fits.pixels
            /\ datamin' = IF fits.bitpix \in FloatBitpix THEN RangeOf(fits)[1] ELSE 0
            /\ datamax' = IF fits.bitpix \in FloatBitpix THEN RangeOf(fits)[2] ELSE 0
            /\ scanIdx' = IF fits.bitpix \in FloatBitpix /\ FindMinMax(fits)
                          THEN 0..(Len(fits.pixels) - 1) ELSE {}
            /\ tpc' = "enter"
            /\ UNCHANGED ret
    /\ UNCHANGED <<ubCast, clock, argv, pctRng, printNoiseBenchmark, fits, imageData,
                   ii, index, dif, squareNoiseSum, noiseOut, srcIdx, noiseAdded>>

\* entry of the transform function: the parameter check and the choice of branch
TransformEnter ==
    /\ tpc = "enter"
    /\ UNCHANGED <<bvars, mvars, xvars>>
    /\ LET len == Len(rawData)
       IN  IF len < 1 \/ ~Supported(fits.bitpix, transform)
           THEN /\ ret' = 1
                /\ tpc' = "done"
                /\ UNCHANGED <<ii, index, dif, squareNoiseSum>>
           ELSE /\ ii' = 0
                /\ index' = len - fits.width
                /\ dif' = 0
                /\ squareNoiseSum' = U64Zero
                /\ tpc' = "loop"
                /\ UNCHANGED ret
    /\ UNCHANGED <<ubCast, clock, argv, ns, pctRng, printNoiseBenchmark, fits, transform,
                   datamin, datamax, rawData, imageData, noiseOut, srcIdx, noiseAdded,
                   scanIdx>>

\* What a read of rawData[index] yields.  Outside the buffer (index, a
\* size_t, is then len or more, or has wrapped below 0) the read is undefined:
\* it yields whatever lies next to the buffer, or the process is killed.
ReadRaw(buf, idx) ==
    IF 0 <= idx /\ idx < Len(buf)
    THEN {[fault |-> FALSE, v |-> buf[idx + 1]]}
    ELSE {[fault |-> TRUE, v |-> 0]} \cup {[fault |-> FALSE, v |-> g] : g \in StraySample}

\* one iteration of the loop of the transform function
TransformStep ==
    /\ tpc = "loop"
    /\ UNCHANGED <<bvars, mvars, xvars>>
    /\ ii < Len(rawData)
    /\ \E rd \in ReadRaw(rawData, index) :
        IF rd.fault
        THEN /\ tpc' = "fault"
             /\ srcIdx' = Append(srcIdx, index)
             /\ UNCHANGED <<ns, noiseAdded, index, dif, pctRng, rawData, imageData,
                            squareNoiseSum, ii>>
        ELSE
         LET g == getPctGaussianNoise(pctRng, argv.pctOn, clock)
             n == GET_INTEGER_GAUSSIAN_NOISE(ns, clock)
             next == UPDATE_FLIPPING_INDEX(index, dif, fits.width)
         IN  /\ ns' = n.st
             /\ noiseAdded' = Append(noiseAdded, n.ret)
             /\ srcIdx' = Append(srcIdx, index)
             /\ index' = next[1]
             /\ dif' = next[2]
             /\ ii' = ii + 1
             /\ tpc' = tpc
             /\ IF fits.bitpix \in FloatBitpix
                THEN LET raw == ADD_GAUSSIAN_NOISE_TO_RAW_VALUES(rd.v,
                                    argv.pctOn, g.ret, datamin, datamax)
                         px == FloatPixel(transform, raw, datamin, datamax, n.ret, ubCast)
                         sq == Sq16(px[2])
                     IN  /\ pctRng' = g.rng
                         /\ rawData' = [rawData EXCEPT ![index + 1] = raw]
                         /\ imageData' = Append(imageData, px[1])
                         /\ squareNoiseSum' = U64Add(squareNoiseSum, <<sq[1], sq[2], 0, 0>>)
                ELSE /\ imageData' = Append(imageData,
                                       IntPixel(fits.bitpix, transform, rd.v, n.ret))
                     /\ UNCHANGED <<pctRng, rawData, squareNoiseSum>>
    /\ UNCHANGED <<ubCast, clock, argv, printNoiseBenchmark, fits, transform, datamin,
                   datamax, noiseOut, ret, scanIdx>>

\* the end of the loop: PRINT_NOISE_BENCHMARK (floating point only), return 0
TransformReturn ==
    /\ tpc = "loop"
    /\ UNCHANGED <<bvars, mvars, xvars>>
    /\ ii >= Len(rawData)
    /\ noiseOut' = IF fits.bitpix \in FloatBitpix /\ printNoiseBenchmark
                   THEN <<squareNoiseSum, Len(rawData), Max16,
                          IF squareNoiseSum # U64Zero THEN "PSNR" ELSE "NO-PSNR">>
                   ELSE <<>>
    /\ ret' = 0
    /\ tpc' = "done"
    /\ UNCHANGED <<ubCast, clock, argv, ns, pctRng, printNoiseBenchmark, fits, transform,
                   datamin, datamax, rawData, imageData, ii, index, dif, squareNoiseSum,
                   srcIdx, noiseAdded, scanIdx>>

InitTransform ==
    /\ TransformInputs
    /\ TransformIdle
    /\ tpc = "main"
    /\ BenchmarkIdle
    /\ mulUB = "wrap"
    /\ parameters = NoParameters
    /\ image = NoImage
    /\ decoded = NoImage
    /\ compressedFile = <<"a">>
    /\ bpc = "idle"
    /\ BatchIdle
    /\ ParserIdle

NextTransform ==
    \/ MainNoiseInit
    \/ CreateImageFromFITS
    \/ TransformEnter
    \/ TransformStep
    \/ TransformReturn

SpecTransform == InitTransform /\ [][NextTransform]_vars

(***************************************************************************)
(* One call of a transform function on its own: the caller hands over any  *)
(* buffer length len and any width, not only those of a FITS plane.        *)
(***************************************************************************)
\* the geometries of a call: len elements in rawData, rows of width elements
CallGeometries ==
    {<<len, width>> : len \in 0..(MaxWidth * MaxHeight), width \in 0..(MaxWidth + 1)}

\* len is a positive multiple of width, and width is positive
ValidGeometry(len, width) ==
    /\ width > 0
    /\ len > 0
    /\ len % width = 0

InitTransformCall ==
    /\ \E b \in {"SHORT_IMG", "BYTE_IMG"}, t \in {"RAW", "NEGATIVE_RAW"},
          geo \in CallGeometries, off \in 0..MaxOffset :
            /\ fits = [bitpix |-> b, width |-> geo[2], height |-> 0,
                       hasMax |-> FALSE, hasMin |-> FALSE, hmin |-> 0, hmax |-> 0,
                       pixels |-> Cyc(IntSample(b), off, geo[1])]
            /\ transform = t
            /\ argv = QuietArgv(t)
            /\ rawData = Cyc(IntSample(b), off, geo[1])
            /\ ns = getIntegerGaussianNoise(NoiseStaticsInit, NullArg,
                                            Ptr(MaxIntensity(b)), NullArg, 0).st
    /\ clock = 0
    /\ ubCast = "indefinite"
    /\ pctRng = PctRngInit
    /\ printNoiseBenchmark = FALSE
    /\ datamin = 0
    /\ datamax = 0
    /\ imageData = <<>>
    /\ ii = 0
    /\ index = 0
    /\ dif = 0
    /\ squareNoiseSum = U64Zero
    /\ noiseOut = <<>>
    /\ ret = -1
    /\ srcIdx = <<>>
    /\ noiseAdded = <<>>
    /\ scanIdx = {}
    /\ tpc = "enter"
    /\ BenchmarkIdle
    /\ mulUB = "wrap"
    /\ parameters = NoParameters
    /\ image = NoImage
    /\ decoded = NoImage
    /\ compressedFile = <<"a">>
    /\ bpc = "idle"
    /\ BatchIdle
    /\ ParserIdle

NextTransformCall ==
    \/ TransformEnter
    \/ TransformStep
    \/ TransformReturn

SpecTransformCall == InitTransformCall /\ [][NextTransformCall]_vars

(***************************************************************************)
(* One call of floatDoubleTransform with LINEAR or NEGATIVE_LINEAR on a    *)
(* buffer of one sample, for a grid of samples and ranges.                 *)
(***************************************************************************)
\* <<sample, datamin, datamax>>
LinearCalls ==
    {<<50, 0, 100>>, <<100, 0, 100>>}
    \cup UNION {{<<x, mn, mx>> : x \in {-3, 0, 1, 7, mx, 2 * mx}, mn \in {-3, 0, 1}} :
                    mx \in 1..MaxLinearMax}

InitLinearCall ==
    /\ \E c \in LinearCalls, t \in {"LINEAR", "NEGATIVE_LINEAR"} :
            /\ LinearTabulated(c[1], c[2], c[3])
            /\ fits = [bitpix |-> "DOUBLE_IMG", width |-> 1, height |-> 1,
                       hasMax |-> TRUE, hasMin |-> TRUE, hmin |-> c[2], hmax |-> c[3],
                       pixels |-> <<c[1]>>]
            /\ transform = t
            /\ argv = QuietArgv(t)
            /\ rawData = <<c[1]>>
            /\ datamin = c[2]
            /\ datamax = c[3]
    /\ ns = getIntegerGaussianNoise(NoiseStaticsInit, NullArg,
                                    Ptr(MaxIntensity("DOUBLE_IMG")), NullArg, 0).st
    /\ clock = 0
    /\ ubCast = "indefinite"
    /\ pctRng = PctRngInit
    /\ printNoiseBenchmark = FALSE
    /\ imageData = <<>>
    /\ ii = 0
    /\ index = 0
    /\ dif = 0
    /\ squareNoiseSum = U64Zero
    /\ noiseOut = <<>>
    /\ ret = -1
    /\ srcIdx = <<>>
    /\ noiseAdded = <<>>
    /\ scanIdx = {}
    /\ tpc = "enter"
    /\ BenchmarkIdle
    /\ mulUB = "wrap"
    /\ parameters = NoParameters
    /\ image = NoImage
    /\ decoded = NoImage
    /\ compressedFile = <<"a">>
    /\ bpc = "idle"
    /\ BatchIdle
    /\ ParserIdle

SpecLinearCall == InitLinearCall /\ [][NextTransformCall]_vars

(***************************************************************************)
(* The quality benchmark: performQualityBenchmarking on one image pair,    *)
(* the pixel loop one iteration per step.                                  *)
(***************************************************************************)
\* what the build makes of the int product (a-b)*(a-b) when it overflows:
\* "wrap" keeps its low 32 bits (imul), "wide" computes it in 64 bits
MulUBModes == {"wrap", "wide"}

\* numbers of components of the uncompressed image
CompCounts == {1, 2}

\* the header fields in which the decoded image differs from the uncompressed one
DiffSets ==
    {{}, {"x0"}, {"x1"}, {"y0"}, {"y1"}, {"numcomps"}, {"color_space"},
     {"icc_profile_len"}, {"x0", "y0", "color_space", "icc_profile_len"}, {"x1", "y1"}}

Images ==
    {[null |-> FALSE, ok |-> TRUE, x0 |-> 0, x1 |-> w, y0 |-> 0, y1 |-> h,
      numcomps |-> n, color_space |-> "CLRSPC_GRAY", icc_profile_len |-> 0] :
        w \in 1..MaxWidth, h \in 1..MaxHeight, n \in CompCounts}

\* the image decoded from a file that differs from img in the fields of d
Differing(img, d) ==
    [img EXCEPT !.x0 = IF "x0" \in d THEN @ + 1 ELSE @,
                !.x1 = IF "x1" \in d THEN @ + 1 ELSE @,
                !.y0 = IF "y0" \in d THEN @ + 1 ELSE @,
                !.y1 = IF "y1" \in d THEN @ + 1 ELSE @,
                !.numcomps = IF "numcomps" \in d THEN @ + 1 ELSE @,
                !.color_space = IF "color_space" \in d THEN "CLRSPC_SRGB" ELSE @,
                !.icc_profile_len = IF "icc_profile_len" \in d THEN @ + 1 ELSE @]

\* pairs <<uncompressed, compressed>> of pixel values of a component of
\* precision prec
PairSample(prec) ==
    CASE prec = 16 -> <<<<0, 1>>, <<65535, 0>>, <<0, 65535>>, <<46341, 0>>,
                        <<46340, 0>>, <<3, 3>>>>
      [] prec = 8 -> <<<<0, 1>>, <<255, 0>>, <<0, 255>>, <<128, 0>>, <<0, 128>>, <<3, 3>>>>
      [] OTHER -> <<<<0, 1>>, <<4095, 0>>, <<0, 4095>>, <<2048, 0>>, <<0, 2048>>, <<3, 3>>>>

Precisions == {8, 12, 16}

\* n pairs of the sample from offset off, the same pair (stride 0) or
\* consecutive ones (stride 1)
PairData(prec, off, stride, n) ==
    [k \in 1..n |->
        PairSample(prec)[((off + stride * (k - 1)) % Len(PairSample(prec))) + 1]]

\* the components ii of the two images: equal in size and sign with sample
\* data, decoded without loss, or differing in width, height or sign
ComponentPairs(img) ==
    LET n == img.x1 * img.y1
        Comp(w, h, prec, sgnd, d, side) ==
            [w |-> w, h |-> h, prec |-> prec, sgnd |-> sgnd,
             data |-> [k \in 1..Len(d) |-> d[k][side]]]
        Same ==
            {<<Comp(img.x1, img.y1, prec, 0, PairData(prec, off, stride, n), 1),
               Comp(img.x1, img.y1, prec, 0, PairData(prec, off, stride, n), 2)>> :
                 prec \in Precisions, off \in 0..MaxOffset, stride \in {0, 1}}
        Lossless ==
            {<<Comp(img.x1, img.y1, prec, 0, PairData(prec, 0, 1, n), 1),
               Comp(img.x1, img.y1, prec, 0, PairData(prec, 0, 1, n), 1)>> :
                 prec \in Precisions}
        Differ ==
            {<<Comp(img.x1, img.y1, 16, 0, PairData(16, 0, 0, n), 1),
               Comp(img.x1 + m[1], img.y1 + m[2], 16, m[3], PairData(16, 0, 0, n), 2)>> :
                 m \in {<<1, 0, 0>>, <<0, 1, 0>>, <<0, 0, 1>>}}
    IN  Same \cup Lossless \cup Differ

\* the sanity checks of the image headers: the diagnostics printed
HeaderDiagnostics(img, dec) ==
    {f \in {"COLOR_SPACE", "ICC_PROFILE_LEN", "X0", "X1", "Y0", "Y1", "NUMCOMPS"} :
        CASE f = "COLOR_SPACE" -> dec.color_space # img.color_space
          [] f = "ICC_PROFILE_LEN" -> dec.icc_profile_len # img.icc_profile_len
          [] f = "X0" -> dec.x0 # img.x0
          [] f = "X1" -> dec.x1 # img.x1
          [] f = "Y0" -> dec.y0 # img.y0
          [] f = "Y1" -> dec.y1 # img.y1
          [] f = "NUMCOMPS" -> dec.numcomps # img.numcomps}

\* mutant of PixelsComparable: the number of components is not compared
PixelsComparable_sizeOnly(img, dec) ==
    dec.x1 = img.x1 /\ dec.y1 = img.y1

\* pixelsComparable after the sanity checks
PixelsComparable(img, dec) ==
    ~(dec.x1 # img.x1) /\ ~(dec.y1 # img.y1) /\ ~(dec.numcomps # img.numcomps)

\* maxPixValue of a component pair
RECURSIVE TimesTwo(_, _)
TimesTwo(v, prec) == IF prec > 0 THEN TimesTwo(v * 2, prec - 1) ELSE v

MaxPixValue(uc, c) ==
    IF c.prec = 16 THEN Max16
    ELSE IF c.prec = 8 THEN Max8
    ELSE TimesTwo(1, uc.prec) - 1

\* mutant of ComponentCheck: the sign flags are not compared
ComponentCheck_sizeOnly(uc, c) ==
    IF uc.w # c.w \/ uc.h # c.h THEN "dimensions" ELSE "ok"

\* the sanity checks of a component pair
ComponentCheck(uc, c) ==
    IF uc.w # c.w \/ uc.h # c.h THEN "dimensions"
    ELSE IF uc.sgnd # c.sgnd THEN "signed"
    ELSE "ok"

\* The term added to squaredError for a pixel difference d (|d| < 2^16):
\* the int product d*d converted to unsigned long long.  A product of 2^31 or
\* more overflows int; with its low 32 bits kept it is negative, and the
\* conversion sign-extends it.
SquareTerm(d, mode) ==
    LET sq == Sq16(Abs(d))
    IN  IF mode = "wrap" /\ sq[2] >= Limb \div 2
        THEN <<sq[1], sq[2], Limb - 1, Limb - 1>>
        ELSE <<sq[1], sq[2], 0, 0>>

\* mutant of ResidualValue: the difference is stored as it is
ResidualValue_unclamped(d, lo, hi) == d

\* residualImage.comps[ii].data[jj]: the difference, clamped to [resMin, resMax]
ResidualValue(d, lo, hi) ==
    IF d < lo THEN lo ELSE IF d > hi THEN hi ELSE d

\* mutant of Overflowed: only the most significant 16 bits are compared
Overflowed_topLimb(old, new) == new[4] < old[4]

\* oldSquareError > squaredError
Overflowed(old, new) == U64Lt(new, old)

\* the running sum of the terms, not reduced modulo 2^64 (five limbs)
U80Add(a, b) ==
    LET s1 == a[1] + b[1]
        s2 == a[2] + b[2] + (s1 \div Limb)
        s3 == a[3] + b[3] + (s2 \div Limb)
        s4 == a[4] + b[4] + (s3 \div Limb)
        s5 == a[5] + (s4 \div Limb)
    IN  <<s1 % Limb, s2 % Limb, s3 % Limb, s4 % Limb, s5>>

\* mutant of MetricsLine: the line is printed whether or not the comparison succeeded
MetricsLine_always(successful, se, n, maxPix) ==
    [squaredError |-> se, pixels |-> n, maxPixValue |-> maxPix,
     psnr |-> IF se = U64Zero THEN "NO-PSNR" ELSE "PSNR"]

\* mutant of MetricsLine: the PSNR is computed whatever the squared error
MetricsLine_psnrAlways(successful, se, n, maxPix) ==
    IF successful
    THEN [squaredError |-> se, pixels |-> n, maxPixValue |-> maxPix, psnr |-> "PSNR"]
    ELSE <<>>

\* The line printed after the pixel loop: file, squaredError, pixels, mse,
\* sqrt(mse) and the PSNR or NO-PSNR; mse = squaredError / pixels and
\* psnr = 10 log10(maxPixValue^2 / mse) are determined by the fields kept.
MetricsLine(successful, se, n, maxPix) ==
    IF successful
    THEN [squaredError |-> se, pixels |-> n, maxPixValue |-> maxPix,
          psnr |-> IF se = U64Zero THEN "NO-PSNR" ELSE "PSNR"]
    ELSE <<>>

\* the benchmarks whose value stands on the line printed: squaredError, mse,
\* sqrt(mse) and, unless NO-PSNR is printed, psnr
MetricsPrinted(line) ==
    IF line = <<>> THEN {}
    ELSE {"squaredError", "meanSquaredError", "rootMeanSquaredError"}
            \cup (IF line.psnr = "PSNR" THEN {"peakSignalToNoiseRatio"} ELSE {})

\* entry: the parameter check, readJ2K and the sanity checks of the headers
BenchmarkStart ==
    /\ bpc = "call"
    /\ UNCHANGED <<tvars, mvars, xvars>>
    /\ IF image.null \/ ~decoded.ok
       THEN /\ bret' = 1
            /\ bpc' = "done"
            /\ diag' = IF image.null THEN {"NULL"} ELSE {"UNABLE_TO_READ"}
            /\ UNCHANGED pixelsComparable
       ELSE LET cmp == PixelsComparable(image, decoded)
            IN  /\ pixelsComparable' = cmp
                /\ diag' = HeaderDiagnostics(image, decoded)
                              \cup (IF cmp THEN {} ELSE {"NOT_COMPARABLE"})
                /\ bpc' = IF cmp THEN "comp" ELSE "done"
                /\ bret' = IF cmp THEN bret ELSE 0
    /\ UNCHANGED <<mulUB, compressedFile, parameters, image, decoded, canWriteResidual, bi, compUC, compC, pixels,
                   maxPixValue, resMin, resMax, squaredError, comparisonSuccessful, bj,
                   residual, report, compOut, residualWritten, residualImage, trueSum, exactSE,
                   overflowAt>>

\* the head of the component loop, up to the pixel loop
ComponentStart ==
    /\ bpc = "comp"
    /\ bi < image.numcomps
    /\ UNCHANGED <<tvars, mvars, xvars>>
    /\ \E cp \in ComponentPairs(image) :
         LET chk == ComponentCheck(cp[1], cp[2])
             mx == MaxPixValue(cp[1], cp[2])
         IN  /\ compUC' = cp[1]
             /\ compC' = cp[2]
             /\ pixels' = cp[1].w * cp[1].h
             /\ maxPixValue' = mx
             /\ resMax' = (mx + 1) \div 2 - 1
             /\ resMin' = -((mx + 1) \div 2 - 1) - 1
             /\ residual' = <<>>
             /\ compOut' = <<>>
             /\ trueSum' = U80Zero
             /\ exactSE' = U64Zero
             /\ overflowAt' = -1
             /\ IF chk # "ok"
                THEN /\ report' = Append(report, chk)
                     /\ canWriteResidual' = FALSE
                     /\ bi' = bi + 1
                     /\ UNCHANGED <<squaredError, comparisonSuccessful, bj, bpc>>
                ELSE /\ squaredError' = U64Zero
                     /\ comparisonSuccessful' = TRUE
                     /\ bj' = 0
                     /\ bpc' = "loop"
                     /\ UNCHANGED <<report, canWriteResidual, bi>>
    /\ UNCHANGED <<mulUB, compressedFile, parameters, image, decoded, pixelsComparable, diag, residualWritten, residualImage, bret>>

\* one iteration of the pixel loop
PixelStep ==
    /\ bpc = "loop"
    /\ bj < pixels
    /\ UNCHANGED <<tvars, mvars, xvars>>
    /\ LET d == compUC.data[bj + 1] - compC.data[bj + 1]
           term == SquareTerm(d, mulUB)
           new == U64Add(squaredError, term)
           sq == Sq16(Abs(d))
           over == Overflowed(squaredError, new)
       IN  /\ squaredError' = new
           /\ residual' = Append(residual, ResidualValue(d, resMin, resMax))
           /\ comparisonSuccessful' = IF over THEN FALSE ELSE comparisonSuccessful
           /\ trueSum' = U80Add(trueSum, term)
           /\ exactSE' = U64Add(exactSE, <<sq[1], sq[2], 0, 0>>)
           /\ overflowAt' = IF over /\ overflowAt < 0 THEN bj ELSE overflowAt
           /\ diag' = IF d < resMin \/ d > resMax
                      THEN diag \cup {"RESIDUAL_OVERFLOW"}
                      ELSE diag
    /\ bj' = bj + 1
    /\ UNCHANGED <<mulUB, compressedFile, parameters, image, decoded, pixelsComparable, canWriteResidual, bi, compUC,
                   compC, pixels, maxPixValue, resMin, resMax, report, compOut,
                   residualWritten, residualImage, bpc, bret>>

\* after the pixel loop: the metrics line, then the next component
ComponentFinish ==
    /\ bpc = "loop"
    /\ bj >= pixels
    /\ UNCHANGED <<tvars, mvars, xvars>>
    /\ compOut' = MetricsLine(comparisonSuccessful, squaredError, pixels, maxPixValue)
    /\ report' = Append(report, IF comparisonSuccessful THEN "metrics" ELSE "overflow")
    /\ bi' = bi + 1
    /\ bpc' = "comp"
    /\ UNCHANGED <<mulUB, compressedFile, parameters, image, decoded, pixelsComparable, canWriteResidual, compUC,
                   compC, pixels, maxPixValue, resMin, resMax, squaredError,
                   comparisonSuccessful, bj, residual, diag, residualWritten, residualImage, bret,
                   trueSum, exactSE, overflowAt>>

\* after the component loop: the residual image is written if it can be; return 0.
\* The name of the residual file is built in residualFile, an array of
\* strlen(lastDot) + 15 characters declared after the dot was overwritten by
\* the end of the string: 15 characters.  sprintf writes the characters
\* before the dot, the 13 of "_RESIDUAL.jp2" and the end of the string.  The
\* characters of a name that does not fit are written over what lies behind
\* the array, and what lies there is the build's choice:
\*   - the process is killed;
\*   - residualImage lies there: its fields x0, y0, x1, y1, numcomps, four
\*     bytes each in this order, hold the characters written over them and
\*     their own bytes elsewhere, and the encoder is handed that header;
\*   - something else lies there: the header is intact, and the value
\*     returned is 0 or one of the characters written.
\* Environment: the allocations of the residual image and its encoding by
\* createJPEG2000Image are taken to succeed (their failure returns 1 whatever
\* the comparison found).
BenchmarkFinish ==
    /\ bpc = "comp"
    /\ bi >= image.numcomps
    /\ UNCHANGED <<tvars, mvars, xvars>>
    /\ LET header == [x0 |-> image.x0, x1 |-> image.x1, y0 |-> image.y0,
                      y1 |-> image.y1, numcomps |-> image.numcomps]
           size == 0 + 15
           fitting == Len(compressedFile) + 13 + 1 <= size
           char(c) == CASE c = "a" -> 97 [] c = "1" -> 49 [] c = "_" -> 95
                        [] c = "R" -> 82 [] c = "E" -> 69 [] c = "S" -> 83
                        [] c = "I" -> 73 [] c = "D" -> 68 [] c = "U" -> 85
                        [] c = "A" -> 65 [] c = "L" -> 76 [] c = "." -> 46
                        [] c = "j" -> 106 [] c = "p" -> 112 [] c = "2" -> 50
           name == compressedFile
                       \o <<"_", "R", "E", "S", "I", "D", "U", "A", "L", ".", "j", "p", "2">>
           written == [k \in 1..(Len(name) + 1) |->
                           IF k <= Len(name) THEN char(name[k]) ELSE 0]
           pow(b) == CASE b = 0 -> 1 [] b = 1 -> 256 [] b = 2 -> 65536 [] b = 3 -> 16777216
           byte(v, n, b) == IF size + 4 * n + b + 1 <= Len(written)
                            THEN written[size + 4 * n + b + 1]
                            ELSE (v \div pow(b)) % 256
           field(v, n) == byte(v, n, 0) + byte(v, n, 1) * 256 + byte(v, n, 2) * 65536
                              + byte(v, n, 3) * 16777216
           overwritten == [x0 |-> field(image.x0, 0), y0 |-> field(image.y0, 1),
                           x1 |-> field(image.x1, 2), y1 |-> field(image.y1, 3),
                           numcomps |-> field(image.numcomps, 4)]
           returned(h, r) == /\ residualWritten' = TRUE
                             /\ residualImage' = h
                             /\ bret' = r
                             /\ bpc' = "done"
       IN  IF ~canWriteResidual
           THEN /\ residualWritten' = FALSE
                /\ bret' = 0
                /\ bpc' = "done"
                /\ UNCHANGED residualImage
           ELSE IF fitting
           THEN returned(header, 0)
           ELSE \/ /\ bpc' = "fault"
                   /\ UNCHANGED <<residualWritten, residualImage, bret>>
                \/ returned(overwritten, 0)
                \/ \E k \in (size + 1)..Len(written) : returned(header, written[k])
    /\ UNCHANGED <<mulUB, compressedFile, parameters, image, decoded, pixelsComparable, canWriteResidual, bi, compUC,
                   compC, pixels, maxPixValue, resMin, resMax, squaredError,
                   comparisonSuccessful, bj, residual, diag, report, compOut, trueSum,
                   exactSE, overflowAt>>

\* the inputs: a build, an uncompressed image and a compressed file that
\* decodes to an image differing in some header fields, or does not decode.
\* The file is a.jp2; with the selection of QB_RES it is also a_1.jp2, the
\* first plane of a cube, whose name is two characters too long for its
\* residual.
BenchmarkInputs ==
    \/ /\ image \in Images
       /\ decoded \in {Differing(image, d) : d \in DiffSets}
       /\ mulUB \in MulUBModes
       /\ parameters \in ParametersSample
       /\ compressedFile \in
            IF parameters = Selected({}, TRUE) /\ mulUB = "wrap"
            THEN {<<"a">>, <<"a", "_", "1">>}
            ELSE {<<"a">>}
    \/ /\ image \in {img \in Images : img.x1 = 1 /\ img.y1 = 1 /\ img.numcomps = 1}
       /\ decoded = NoImage
       /\ mulUB = "wrap"
       /\ parameters = Selected({}, TRUE)
       /\ compressedFile = <<"a">>
    \/ /\ image = NoImage
       /\ decoded = NoImage
       /\ mulUB = "wrap"
       /\ parameters = Selected({}, TRUE)
       /\ compressedFile = <<"a">>

InitBenchmark ==
    /\ BenchmarkInputs
    /\ BenchmarkIdle
    /\ bpc = "call"
    /\ TransformIdle
    /\ tpc = "idle"
    /\ BatchIdle
    /\ ParserIdle
    /\ ubCast = "indefinite"
    /\ clock = 0
    /\ argv = QuietArgv("DEFAULT")
    /\ fits = [bitpix |-> "OTHER_IMG", width |-> 1, height |-> 1, hasMax |-> FALSE, hasMin |-> FALSE,
               hmin |-> 0, hmax |-> 0, pixels |-> <<0>>]

NextBenchmark ==
    \/ BenchmarkStart
    \/ ComponentStart
    \/ PixelStep
    \/ ComponentFinish
    \/ BenchmarkFinish

SpecBenchmark == InitBenchmark /\ [][NextBenchmark]_vars

(***************************************************************************)
(* The batch: main selects the planes of the file and calls                *)
(* setupCompression for each.  What happens inside one call is chosen by   *)
(* the environment: which allocation, read or encoding fails, if any.      *)
(***************************************************************************)
\* the files: a 2-D image, a 3-D cube, a 4-D volume
Cubes ==
    {[naxis |-> 2, depth |-> 1, stokes |-> 1]}
    \cup {[naxis |-> 3, depth |-> d, stokes |-> 1] : d \in 1..MaxDepth}
    \cup {[naxis |-> 4, depth |-> d, stokes |-> st] : d \in 1..MaxDepth, st \in 1..MaxStokes}

\* the command lines for file c: every -x, -y around the depth, absent (-1)
\* included; pairs -S1, -S2 of each kind; ll and qb: -LL and -QB are given
CommandLines(c) ==
    {[x |-> x, y |-> y, s1 |-> sp[1], s2 |-> sp[2], ll |-> f, qb |-> f] :
        x \in -1..(c.depth + 1), y \in -1..(c.depth + 1),
        sp \in {<<-1, -1>>, <<1, c.stokes>>, <<c.stokes, -1>>, <<c.stokes, 1>>,
                <<0, c.stokes>>, <<1, c.stokes + 1>>},
        f \in BOOLEAN}

\* main's quality_benchmark_info after the parser.  main declares the
\* structure without initialising it and the parser only ever sets fields to
\* true: -QB sets the nine benchmarks and performQualityBenchmarking, and a
\* field no option has set holds what the stack held.  Of those fields the
\* program reads performQualityBenchmarking and writeResidual, in
\* setupCompression; each of the two reads as false or as true.
ParsedParameters(qb) ==
    {[Selected(IF qb THEN MetricFlags ELSE {}, res) EXCEPT
          !.performQualityBenchmarking = qb \/ perform] :
        perform \in (IF qb THEN {TRUE} ELSE BOOLEAN), res \in BOOLEAN}

\* setupCompression's test before it calls performQualityBenchmarking
Benchmarked(qbp) == qbp.performQualityBenchmarking \/ qbp.writeResidual

\* the steps of setupCompression that can fail, and "ok"; "notComparable"
\* is the decoded image differing in size from the frame.  readJ2K fails
\* either before it has an image ("readHeader": the file, the stream, the
\* decoder or opj_read_header) or in opj_decode_v2, on the image that
\* opj_read_header handed back ("decode")
BenchmarkFates ==
    {"readHeader", "decode", "notComparable", "residualComps", "residualData",
     "residualEncode"}

\* the fates of the next call.  A failure of the quality benchmark does not
\* end the run (setupCompression returns 0 all the same): the runs have the
\* benchmark return early in at most one call, and in the calls after it
\* anything may go wrong that ends the run
\* "residualName" is performQualityBenchmarking writing the name of the
\* residual file beyond the end of residualFile and the process being killed
PlaneFates(o, qbp, before) ==
    IF \E k \in 1..Len(before) : before[k].out # "ok"
    THEN {"ok", "allocComps", "allocData", "allocRaw", "read", "transform", "encode"}
         \cup (IF o.ll THEN {"losslessEncode"} ELSE {})
         \cup (IF Benchmarked(qbp) THEN {"residualName"} ELSE {})
    ELSE {"ok", "allocComps", "allocData", "allocRaw", "read", "transform", "encode"}
         \cup (IF o.ll THEN {"losslessEncode"} ELSE {})
         \cup (IF Benchmarked(qbp) THEN BenchmarkFates \cup {"residualName"} ELSE {})

\* createImageFromFITS: the frame and the stoke are inside the file
ValidPlane(c, f, st) ==
    /\ ~(c.naxis > 2 /\ (f < 1 \/ f > c.depth))
    /\ ~(c.naxis > 3 /\ (st < 1 \/ st > c.stokes))

\* what happens to the call for frame f, stoke st when the environment chose fate.
\* The file converted is a.fits: the image of a 2-D file is a.jp2, whose
\* residual name fits residualFile; a plane of a cube is a_1.jp2 or longer,
\* and the name of its residual does not fit.
Outcome(c, f, st, fate) ==
    IF fate \notin {"allocComps", "allocData"} /\ ~ValidPlane(c, f, st)
    THEN "badFrame"
    ELSE IF fate = "residualName" /\ c.naxis = 2 THEN "ok"
    ELSE fate

\* the value setupCompression returns: the result of
\* performQualityBenchmarking is not looked at; -1: the call does not return
SetupResult(out) ==
    IF out = "residualName" THEN -1
    ELSE IF out \in {"ok"} \cup BenchmarkFates THEN 0 ELSE 1

\* the buffers allocated during the call, and those released before it returns.
\* compressedImage is the image of opj_read_header: readJ2K releases it when
\* the decoding fails, performQualityBenchmarking on its other returns
Allocated(out, qb) ==
    LET inBench == out \in BenchmarkFates \cup {"residualName"} \/ (out = "ok" /\ qb)
    IN  (IF out # "allocComps" THEN {"frame.comps"} ELSE {})
        \cup (IF out \notin {"allocComps", "allocData"} THEN {"frame.comps[0].data"} ELSE {})
        \cup (IF out \notin {"allocComps", "allocData", "badFrame", "allocRaw"}
              THEN {"imageArray"} ELSE {})
        \cup (IF inBench /\ out # "readHeader" THEN {"compressedImage"} ELSE {})
        \cup (IF inBench /\ out \notin {"readHeader", "decode", "notComparable", "residualComps"}
              THEN {"residualImage.comps"} ELSE {})
        \cup (IF inBench /\ out \in {"ok", "residualEncode", "residualName"}
              THEN {"residualImage.comps[0].data"} ELSE {})

\* the process killed in performQualityBenchmarking had released imageArray only
Released(out, qb) ==
    IF out = "residualName" THEN {"imageArray"}
    ELSE Allocated(out, qb) \ (IF out \in {"read", "transform"} THEN {"imageArray"} ELSE {})

\* mutant of SelectRange: the last plane is not compared with the number of planes
SelectRange_noUpperTest(first, last, n) ==
    IF 1 <= first /\ first <= last THEN <<first, last>>
    ELSE IF 1 <= first /\ first <= n THEN <<first, first>>
    ELSE <<1, n>>

\* mutant of SelectRange: a last plane given alone is honoured
SelectRange_lastAlone(first, last, n) ==
    IF 1 <= first /\ first <= last /\ last <= n THEN <<first, last>>
    ELSE IF 1 <= first /\ first <= n THEN <<first, first>>
    ELSE IF 1 <= last /\ last <= n THEN <<1, last>>
    ELSE <<1, n>>

\* the range of planes main converts: start and end for the options first,
\* last and n planes in the file
SelectRange(first, last, n) ==
    IF 1 <= first /\ first <= last /\ last <= n THEN <<first, last>>
    ELSE IF 1 <= first /\ first <= n THEN <<first, first>>
    ELSE <<1, n>>

\* main from getFITSInfo to the loop: the ranges of frames and stokes
MainSelect ==
    /\ mpc = "select"
    /\ UNCHANGED <<tvars, bvars, xvars>>
    /\ IF cube.naxis = 2
       THEN /\ mpc' = "plane2d"
            /\ UNCHANGED <<startFrame, endFrame, startStoke, endStoke, frameNumber,
                           stokeNumber>>
       ELSE LET fr == SelectRange(opts.x, opts.y, cube.depth)
                sr == IF cube.naxis > 3 THEN SelectRange(opts.s1, opts.s2, cube.stokes)
                      ELSE <<1, 1>>
            IN  /\ startFrame' = fr[1]
                /\ endFrame' = fr[2]
                /\ startStoke' = sr[1]
                /\ endStoke' = sr[2]
                /\ frameNumber' = fr[1]
                /\ stokeNumber' = sr[1]
                /\ mpc' = "loop"
    /\ UNCHANGED <<cube, opts, exitStatus, calls, heap>>

\* one call of setupCompression and main's test of its result
SetupCompression(f, st, fate) ==
    LET out == Outcome(cube, f, st, fate)
    IN  /\ calls' = Append(calls, [frame |-> f, stoke |-> st, out |-> out,
                                   result |-> SetupResult(out)])
        /\ heap' = [b \in Buffers |->
                        <<IF b \in Allocated(out, Benchmarked(parameters)) THEN 1 ELSE 0,
                          IF b \in Released(out, Benchmarked(parameters)) THEN 1 ELSE 0>>]

\* the 2-D image: one call, then exit
MainPlane2D ==
    /\ mpc = "plane2d"
    /\ UNCHANGED <<tvars, bvars, xvars>>
    /\ \E fate \in PlaneFates(opts, parameters, calls) :
          /\ SetupCompression(1, 1, fate)
          /\ exitStatus' = IF SetupResult(Outcome(cube, 1, 1, fate)) # 0 THEN 1 ELSE 0
    /\ mpc' = "exit"
    /\ UNCHANGED <<cube, opts, startFrame, endFrame, startStoke, endStoke, frameNumber,
                   stokeNumber>>

\* the body of the inner loop, and jj++
MainPlane ==
    /\ mpc = "loop"
    /\ UNCHANGED <<tvars, bvars, xvars>>
    /\ frameNumber <= endFrame
    /\ stokeNumber <= endStoke
    /\ \E fate \in PlaneFates(opts, parameters, calls) :
          /\ SetupCompression(frameNumber, stokeNumber, fate)
          /\ IF SetupResult(Outcome(cube, frameNumber, stokeNumber, fate)) = -1
             THEN /\ mpc' = "killed"
                  /\ UNCHANGED <<exitStatus, stokeNumber>>
             ELSE IF SetupResult(Outcome(cube, frameNumber, stokeNumber, fate)) # 0
             THEN /\ exitStatus' = 1
                  /\ mpc' = "exit"
                  /\ UNCHANGED stokeNumber
             ELSE /\ stokeNumber' = stokeNumber + 1
                  /\ UNCHANGED <<exitStatus, mpc>>
    /\ UNCHANGED <<cube, opts, startFrame, endFrame, startStoke, endStoke, frameNumber>>

\* the inner loop ends: ii++, jj = startStoke
MainNextFrame ==
    /\ mpc = "loop"
    /\ UNCHANGED <<tvars, bvars, xvars>>
    /\ frameNumber <= endFrame
    /\ stokeNumber > endStoke
    /\ frameNumber' = frameNumber + 1
    /\ stokeNumber' = startStoke
    /\ UNCHANGED <<cube, opts, startFrame, endFrame, startStoke, endStoke, mpc,
                   exitStatus, calls, heap>>

\* the outer loop ends: exit(EXIT_SUCCESS)
MainExit ==
    /\ mpc = "loop"
    /\ UNCHANGED <<tvars, bvars, xvars>>
    /\ frameNumber > endFrame
    /\ exitStatus' = 0
    /\ mpc' = "exit"
    /\ UNCHANGED <<cube, opts, startFrame, endFrame, startStoke, endStoke, frameNumber,
                   stokeNumber, calls, heap>>

InitBatch ==
    /\ cube \in Cubes
    /\ opts \in CommandLines(cube)
    /\ startFrame = opts.x
    /\ endFrame = opts.y
    /\ startStoke = opts.s1
    /\ endStoke = opts.s2
    /\ frameNumber = 0
    /\ stokeNumber = 0
    /\ mpc = "select"
    /\ exitStatus = -1
    /\ calls = <<>>
    /\ heap = NoHeap
    /\ TransformIdle
    /\ tpc = "idle"
    /\ ubCast = "indefinite"
    /\ clock = 0
    /\ argv = QuietArgv("DEFAULT")
    /\ fits = [bitpix |-> "OTHER_IMG", width |-> 1, height |-> 1, hasMax |-> FALSE,
               hasMin |-> FALSE, hmin |-> 0, hmax |-> 0, pixels |-> <<0>>]
    /\ BenchmarkIdle
    /\ mulUB = "wrap"
    /\ parameters \in ParsedParameters(opts.qb)
    /\ image = NoImage
    /\ decoded = NoImage
    /\ compressedFile = <<"a">>
    /\ bpc = "idle"
    /\ ParserIdle

NextBatch ==
    \/ MainSelect
    \/ MainPlane2D
    \/ MainPlane
    \/ MainNextFrame
    \/ MainExit

SpecBatch == InitBatch /\ [][NextBatch]_vars

(***************************************************************************)
(* getIntegerGaussianNoise called on its own, with any arguments, a few     *)
(* times in a row.                                                         *)
(***************************************************************************)
\* the arguments of a call: each pointer is NULL or points to a value
NoiseArgs ==
    [noiseDB : {NullArg} \cup {Ptr(d) : d \in NoiseDBs \cup {30}},
     maxIntensity : {NullArg, Ptr(Max8), Ptr(Max16)},
     seed : {NullArg, Ptr(1)}]

\* one call of getIntegerGaussianNoise
NoiseCall ==
    /\ Len(noiseCalls) < MaxNoiseCalls
    /\ \E a \in NoiseArgs :
         LET r == getIntegerGaussianNoise(ns, a.noiseDB, a.maxIntensity, a.seed, clock)
         IN  /\ ns' = r.st
             /\ noiseCalls' = Append(noiseCalls,
                                [noiseDB |-> a.noiseDB, maxIntensity |-> a.maxIntensity,
                                 seed |-> a.seed, ret |-> r.ret, st |-> r.st])
    /\ UNCHANGED <<ubCast, clock, argv, pctRng, printNoiseBenchmark, fits, transform,
                   datamin, datamax, rawData, imageData, ii, index, dif, squareNoiseSum,
                   noiseOut, tpc, ret, srcIdx, noiseAdded, scanIdx>>
    /\ UNCHANGED <<bvars, mvars, cmdline, optind, cparameters, pret>>

InitNoiseCalls ==
    /\ clock \in {0, 2}
    /\ TransformIdle
    /\ tpc = "idle"
    /\ ubCast = "indefinite"
    /\ argv = QuietArgv("DEFAULT")
    /\ fits = [bitpix |-> "OTHER_IMG", width |-> 1, height |-> 1, hasMax |-> FALSE,
               hasMin |-> FALSE, hmin |-> 0, hmax |-> 0, pixels |-> <<0>>]
    /\ BenchmarkIdle
    /\ mulUB = "wrap"
    /\ parameters = NoParameters
    /\ image = NoImage
    /\ decoded = NoImage
    /\ compressedFile = <<"a">>
    /\ bpc = "idle"
    /\ BatchIdle
    /\ ParserIdle

SpecNoiseCalls == InitNoiseCalls /\ [][NoiseCall]_vars

(***************************************************************************)
(* parse_cmdline_encoder: the options -o and -jpip, one option per step,   *)
(* in the order of the command line.                                       *)
(***************************************************************************)
\* the options: -jpip, and -o with an argument, a string of characters
CommandOptions ==
    {[c |-> "J", optarg |-> <<>>]} \cup
    {[c |-> "o", optarg |-> f] :
        f \in {<<"J", "P", "2">>, <<"j", "P", "2">>, <<"J", "2", "K">>, <<"j", "2", "k">>,
               <<"J", "2", "k">>, <<"P", "G", "X">>, <<"J", "2">>}}

\* case 'o'
ParseOutputFormat ==
    /\ pret = -1
    /\ optind <= Len(cmdline)
    /\ cmdline[optind].c = "o"
    /\ LET lower == <<"a", "b", "c", "d", "e", "f", "g", "h", "i", "j", "k", "l", "m",
                       "n", "o", "p", "q", "r", "s", "t", "u", "v", "w", "x", "y", "z">>
           upper == <<"A", "B", "C", "D", "E", "F", "G", "H", "I", "J", "K", "L", "M",
                       "N", "O", "P", "Q", "R", "S", "T", "U", "V", "W", "X", "Y", "Z">>
           toupper(ch) == IF \E i \in 1..Len(lower) : lower[i] = ch
                          THEN upper[CHOOSE i \in 1..Len(lower) : lower[i] = ch]
                          ELSE ch
           \* 0 if and only if a and b are the same string but for the case of letters
           strcasecmp(a, b) ==
               IF Len(a) = Len(b) /\ \A i \in 1..Len(a) : toupper(a[i]) = toupper(b[i])
               THEN 0 ELSE 1
           outfile == cmdline[optind].optarg
       IN  cparameters' =
             [cparameters EXCEPT !.cod_format =
                IF strcasecmp(outfile, <<"J", "P", "2">>) = 0 THEN "CODEC_JP2"
                ELSE IF strcasecmp(outfile, <<"J", "2", "K">>) = 0 THEN "CODEC_J2K"
                ELSE "CODEC_JP2"]
    /\ optind' = optind + 1
    /\ UNCHANGED <<tvars, bvars, mvars, noiseCalls, cmdline, pret>>

\* case 'J'
ParseJpip ==
    /\ pret = -1
    /\ optind <= Len(cmdline)
    /\ cmdline[optind].c = "J"
    /\ cparameters' =
         [cparameters EXCEPT !.jpip_on = TRUE,
                             !.cod_format = IF @ = "CODEC_J2K" THEN "CODEC_JP2" ELSE @]
    /\ optind' = optind + 1
    /\ UNCHANGED <<tvars, bvars, mvars, noiseCalls, cmdline, pret>>

\* opj_getopt_long returns -1: the checks after the loop read neither field
\* (an input file is named), return 0
ParseEnd ==
    /\ pret = -1
    /\ optind > Len(cmdline)
    /\ pret' = 0
    /\ UNCHANGED <<tvars, bvars, mvars, noiseCalls, cmdline, optind, cparameters>>

\* main has set the default parameters (no JPIP index), parse_cmdline_encoder
\* has set JP2 before its loop
InitParse ==
    /\ cmdline \in UNION {[1..n -> CommandOptions] : n \in 0..MaxOptions}
    /\ optind = 1
    /\ cparameters = [cod_format |-> "CODEC_JP2", jpip_on |-> FALSE]
    /\ pret = -1
    /\ noiseCalls = <<>>
    /\ clock = 0
    /\ TransformIdle
    /\ tpc = "idle"
    /\ ubCast = "indefinite"
    /\ argv = QuietArgv("DEFAULT")
    /\ fits = [bitpix |-> "OTHER_IMG", width |-> 1, height |-> 1, hasMax |-> FALSE,
               hasMin |-> FALSE, hmin |-> 0, hmax |-> 0, pixels |-> <<0>>]
    /\ BenchmarkIdle
    /\ mulUB = "wrap"
    /\ parameters = NoParameters
    /\ image = NoImage
    /\ decoded = NoImage
    /\ compressedFile = <<"a">>
    /\ bpc = "idle"
    /\ BatchIdle

NextParse ==
    \/ ParseOutputFormat
    \/ ParseJpip
    \/ ParseEnd

SpecParse == InitParse /\ [][NextParse]_vars

(***************************************************************************)
(* Properties of the transform engine.                                     *)
(***************************************************************************)
NoiseDisabled == ~argv.noiseSet /\ ~argv.pctOn

\* the (0-based) input index of row height-1-r, column c, for the output
\* element k (1-based) at row r, column c
FlipIndex(k, width, height) ==
    (height - 1 - ((k - 1) \div width)) * width + ((k - 1) % width)

\* the value the transform function of the plane's type gives a sample, for
\* transform t and integer noise n
PixelValue(t, raw, n) ==
    IF fits.bitpix \in FloatBitpix
    THEN FloatPixel(t, raw, datamin, datamax, n, ubCast)[1]
    ELSE IntPixel(fits.bitpix, t, raw, n)

\* C1: every element of the output intensity buffer lies in [0, maxIntensity]
\* (255 for 8-bit sources, 65535 otherwise), whatever the samples and whatever
\* integer noise was added.
C1_OutputInRange ==
    \A k \in 1..Len(imageData) :
        0 <= imageData[k] /\ imageData[k] <= MaxIntensity(fits.bitpix)

\* a floating-point plane with a sample above datamax, converted with large
\* integer noise of both signs
C1_Witness ==
    /\ tpc = "done" /\ ret = 0
    /\ fits.bitpix \in FloatBitpix
    /\ \E k \in 1..Len(rawData) : rawData[k] > datamax
    /\ \E k \in 1..Len(noiseAdded) : noiseAdded[k] = NoiseBig
    /\ \E k \in 1..Len(noiseAdded) : noiseAdded[k] = -NoiseBig
    /\ Len(imageData) = fits.width * fits.height

\* C2: the output element at row r, column c is the transformed value of the
\* input sample at row height-1-r, column c.
C2_VerticalFlip ==
    \A k \in 1..Len(imageData) :
        /\ srcIdx[k] = FlipIndex(k, fits.width, fits.height)
        /\ imageData[k] =
              PixelValue(transform,
                         rawData[FlipIndex(k, fits.width, fits.height) + 1],
                         noiseAdded[k])

\* a plane of at least two rows and two columns, fully converted, whose first
\* and last rows differ
C2_Witness ==
    /\ tpc = "done" /\ ret = 0
    /\ fits.height >= 2 /\ fits.width >= 2
    /\ srcIdx[1] = (fits.height - 1) * fits.width
    /\ srcIdx[Len(srcIdx)] = fits.width - 1
    /\ fits.pixels[1] # fits.pixels[(fits.height - 1) * fits.width + 1]

\* C3: with noise disabled, the output of NEGATIVE_X is maxIntensity minus the
\* output of X, element by element.
C3_NegativeIsComplement ==
    (NoiseDisabled /\ IsNegative(transform))
        => \A k \in 1..Len(imageData) :
              imageData[k] =
                  MaxIntensity(fits.bitpix)
                      - PixelValue(BaseOf(transform), rawData[srcIdx[k] + 1], 0)

\* C4: RAW on an 8- or 16-bit integer source, noise disabled: undoing the flip
\* and subtracting the sign shift recovers every sample.
SignShift(bitpix) ==
    IF bitpix \in {"SBYTE_IMG", "SHORT_IMG"}
    THEN (MaxIntensity(bitpix) + 1) \div 2
    ELSE 0

C4_RawRoundTrip ==
    (/\ tpc = "done" /\ ret = 0
     /\ fits.bitpix \in RawBitpix
     /\ transform = "RAW"
     /\ NoiseDisabled)
        => \A j \in 1..Len(fits.pixels) :
              imageData[FlipIndex(j, fits.width, fits.height) + 1]
                  - SignShift(fits.bitpix) = fits.pixels[j]

\* a signed 16-bit plane of two rows holding the type's minimum and maximum
C4_Witness ==
    /\ tpc = "done" /\ ret = 0
    /\ fits.bitpix = "SHORT_IMG"
    /\ transform = "RAW"
    /\ NoiseDisabled
    /\ fits.height >= 2
    /\ \E j \in 1..Len(fits.pixels) : fits.pixels[j] = -Shift16
    /\ \E j \in 1..Len(fits.pixels) : fits.pixels[j] = Shift16 - 1

(***************************************************************************)
(* Properties of the quality benchmark.                                    *)
(***************************************************************************)
\* the pixel loop of the current component has started
InComponent == bpc = "loop" \/ (Len(report) > 0 /\ report[Len(report)] \in {"metrics", "overflow"})

\* the header fields that decide whether the pixels are compared
Agree == decoded.x1 = image.x1 /\ decoded.y1 = image.y1 /\ decoded.numcomps = image.numcomps

Low64(a) == <<a[1], a[2], a[3], a[4]>>

\* C5: the check "the sum is smaller after the addition than before" has fired
\* exactly when the unbounded sum of the terms added has exceeded 2^64 - 1; and
\* while it has not fired the accumulator is that sum.
C5_OverflowCheckExact ==
    InComponent =>
        /\ (~comparisonSuccessful) <=> (trueSum[5] > 0)
        /\ comparisonSuccessful => squaredError = Low64(trueSum)

\* the sum of the terms has passed 2^64 and the check has fired at that step
C5_Witness ==
    /\ bpc = "loop"
    /\ ~comparisonSuccessful
    /\ overflowAt = bj - 1
    /\ trueSum[5] > 0

\* C6: when the comparison of a component is reported successful, the squared
\* error printed is the exact sum of the squares of the pixel differences.
C6_SquaredErrorExact ==
    (InComponent /\ compOut # <<>>) => compOut.squaredError = exactSE

\* C7: after the step at which overflow was first detected no further pixel of
\* the component is processed.
C7_LoopAbortsOnOverflow ==
    (InComponent /\ ~comparisonSuccessful) => bj = overflowAt + 1

\* C8: a component whose sum overflowed gets no metrics line, the components
\* after it are still processed, and the call returns 0: once the components
\* are through the call has returned 0, it has not been killed.
C8_OverflowSuppressesMetrics ==
    /\ (bpc = "comp" /\ Len(report) > 0 /\ report[Len(report)] = "overflow")
          => compOut = <<>>
    /\ (InComponent /\ bpc # "loop" /\ ~comparisonSuccessful)
          => report[Len(report)] = "overflow"
    /\ (bpc \in {"done", "fault"} /\ \E i \in 1..Len(report) : report[i] = "overflow")
          => bpc = "done" /\ bret = 0 /\ Len(report) = image.numcomps

\* C9: the components are compared exactly when the two images agree on x1, y1
\* and the number of components; otherwise the diagnostic is printed, nothing
\* is compared, no metrics line and no residual is written and the call
\* returns 0.  Other header differences are only reported.
C9_ComparableGate ==
    /\ bpc \in {"comp", "loop"} => Agree
    /\ (bpc = "done" /\ ~image.null /\ decoded.ok) =>
          IF Agree
          THEN /\ "NOT_COMPARABLE" \notin diag
               /\ Len(report) = image.numcomps
          ELSE /\ "NOT_COMPARABLE" \in diag
               /\ report = <<>>
               /\ compUC = NoComp
               /\ residual = <<>>
               /\ compOut = <<>>
               /\ ~residualWritten
               /\ bret = 0

\* images of different width: diagnostic, nothing compared, return 0
C9_Witness ==
    /\ bpc = "done"
    /\ decoded.ok
    /\ decoded.x1 # image.x1
    /\ "NOT_COMPARABLE" \in diag
    /\ report = <<>>
    /\ bret = 0

\* C10: a component that differs in width, height or sign between the two
\* images is skipped with a diagnostic and without metrics, the residual is
\* not written, and the other components are still compared.
C10_ComponentSkipped ==
    /\ bpc = "loop" =>
          compUC.w = compC.w /\ compUC.h = compC.h /\ compUC.sgnd = compC.sgnd
    /\ (bpc \in {"comp", "done"} /\ Len(report) > 0
           /\ (compUC.w # compC.w \/ compUC.h # compC.h \/ compUC.sgnd # compC.sgnd))
          => /\ report[Len(report)] \in {"dimensions", "signed"}
             /\ compOut = <<>>
             /\ residual = <<>>
    /\ (\E i \in 1..Len(report) : report[i] \in {"dimensions", "signed"})
          => ~canWriteResidual /\ ~residualWritten
    /\ (bpc = "done" /\ pixelsComparable /\ bret = 0 /\ report # <<>>)
          => Len(report) = image.numcomps

\* a component of different sign skipped, its sibling compared and reported,
\* no residual written
C10_Witness ==
    /\ bpc = "done"
    /\ bret = 0
    /\ report = <<"signed", "metrics">>
    /\ compOut # <<>>
    /\ ~residualWritten

\* the interval of the residual values of a component of precision prec
ResidualLow(prec) == -(TimesTwo(1, prec) \div 2)

ResidualHigh(prec) == TimesTwo(1, prec) \div 2 - 1

\* the pixel differences of the current component that lie outside the interval
ClampedPixels ==
    {k \in 1..Len(residual) :
        LET d == compUC.data[k] - compC.data[k]
        IN  d < ResidualLow(compUC.prec) \/ d > ResidualHigh(compUC.prec)}

\* C11: every residual element is the pixel difference clamped into
\* [-((maxPixValue+1)/2), (maxPixValue+1)/2 - 1], maxPixValue = 2^precision - 1;
\* a clamped pixel is reported and does not make the comparison fail.
C11_ResidualClamped ==
    (InComponent /\ compUC.prec = compC.prec) =>
        /\ bpc = "loop" => Len(residual) = bj
        /\ \A k \in 1..Len(residual) :
              LET d == compUC.data[k] - compC.data[k]
                  lo == ResidualLow(compUC.prec)
                  hi == ResidualHigh(compUC.prec)
              IN  /\ lo <= residual[k] /\ residual[k] <= hi
                  /\ residual[k] = (IF d < lo THEN lo ELSE IF d > hi THEN hi ELSE d)
        /\ ClampedPixels # {} => "RESIDUAL_OVERFLOW" \in diag
        /\ (ClampedPixels # {} /\ overflowAt < 0) => comparisonSuccessful
        /\ (ClampedPixels # {} /\ overflowAt < 0 /\ bpc = "comp" /\ Len(report) > 0
               /\ report[Len(report)] \notin {"dimensions", "signed"})
              => compOut # <<>>

\* an 8-bit component with a difference of 255 stored as 127 and one of -255
\* stored as -128, compared successfully
C11_Witness ==
    /\ bpc = "comp"
    /\ compUC.prec = 8
    /\ compOut # <<>>
    /\ \E k \in 1..Len(residual) : residual[k] = 127 /\ compUC.data[k] - compC.data[k] = 255
    /\ \E k \in 1..Len(residual) : residual[k] = -128 /\ compUC.data[k] - compC.data[k] = -255

\* the component just compared had the same pixel values in both images
IdenticalComponent ==
    /\ bpc = "comp" /\ Len(report) > 0
    /\ report[Len(report)] \in {"metrics", "overflow"}
    /\ compUC.data = compC.data

\* C12: the metrics line carries a PSNR number exactly when the squared error
\* is not 0; for a squared error of 0, and so for identical components, it
\* carries the squared error 0 and NO-PSNR, and the component is reported as
\* compared, not as an error.
C12_PsnrIffNonZero ==
    /\ compOut # <<>> =>
          /\ compOut.psnr \in {"PSNR", "NO-PSNR"}
          /\ compOut.psnr = "PSNR" <=> compOut.squaredError # U64Zero
          /\ compOut.psnr = "PSNR" => (compOut.pixels > 0 /\ compOut.maxPixValue > 0)
    /\ IdenticalComponent =>
          /\ compOut # <<>>
          /\ compOut.squaredError = U64Zero
          /\ compOut.psnr = "NO-PSNR"
          /\ report[Len(report)] = "metrics"
          /\ comparisonSuccessful

\* a 2x2 component, identical in both images, reported with NO-PSNR
C12_Witness ==
    /\ IdenticalComponent
    /\ pixels = 4
    /\ compOut.psnr = "NO-PSNR"

\* C13: a benchmark is printed exactly when its flag is set, and the residual
\* image is written exactly when writeResidual is set.
C13_EmitsWhatIsSelected ==
    /\ (bpc = "comp" /\ Len(report) > 0 /\ report[Len(report)] = "metrics"
            /\ compOut.squaredError # U64Zero)
          => \A m \in MetricFlags : (m \in MetricsPrinted(compOut)) <=> parameters[m]
    /\ (bpc = "done" /\ bret = 0 /\ pixelsComparable /\ canWriteResidual)
          => (residualWritten <=> parameters.writeResidual)

\* a floating-point plane is in the loop of floatDoubleTransform or past it
InFloatTransform ==
    /\ tpc \in {"loop", "done"}
    /\ fits.bitpix \in FloatBitpix
    /\ Supported(fits.bitpix, transform)

\* C14: with datamax = datamin no branch divides by zero, every value converted
\* to int is a finite number, and all output elements are equal.
C14_DegenerateRangeSafe ==
    (InFloatTransform /\ datamin = datamax /\ NoiseDisabled) =>
        /\ ~ScaleDivisorIsZero(BaseOf(transform), datamin, datamax)
        /\ \A k \in 1..Len(imageData) :
              FloatValue(BaseOf(transform), rawData[srcIdx[k] + 1], datamin, datamax).c = "num"
        /\ \A j, k \in 1..Len(imageData) : imageData[j] = imageData[k]

\* createImageFromFITS has determined the range of a floating-point plane
RangeDetermined ==
    /\ tpc \in {"enter", "loop", "done"}
    /\ fits.bitpix \in FloatBitpix

\* C15: with both DATAMIN and DATAMAX in the header the range is the declared
\* pair; with either one absent it is the least and the greatest sample of
\* the plane (a plane that has a sample 0; C20 is the plane of no samples).
C15_RangeAnalysis ==
    RangeDetermined =>
        IF fits.hasMin /\ fits.hasMax
        THEN datamin = fits.hmin /\ datamax = fits.hmax
        ELSE Len(fits.pixels) > 0 =>
             /\ \A k \in 1..Len(fits.pixels) :
                  datamin <= fits.pixels[k] /\ fits.pixels[k] <= datamax
             /\ \E k \in 1..Len(fits.pixels) : fits.pixels[k] = datamin
             /\ \E k \in 1..Len(fits.pixels) : fits.pixels[k] = datamax

\* a header with DATAMAX only, whose value is not the greatest sample, and the
\* plane converted with the scanned range
C15_Witness ==
    /\ RangeDetermined
    /\ tpc = "done" /\ ret = 0
    /\ fits.hasMax /\ ~fits.hasMin
    /\ Len(fits.pixels) > 1
    /\ datamax # fits.hmax

\* C16: the range handed to the floating-point transform satisfies
\* datamax >= datamin, whether declared in the header or found by the scan.
C16_RangeOrdered ==
    RangeDetermined => datamax >= datamin

\* a transform function has been called for the plane
TransformCalled ==
    \/ tpc \in {"enter", "loop"}
    \/ tpc = "done" /\ fits.bitpix # "OTHER_IMG"

\* C17: the transform function receives RAW for DEFAULT on an integer type and
\* LOG for DEFAULT on a floating-point type, any other transform as
\* requested, never DEFAULT; it is decided before the first sample is
\* converted and does not change during the plane.
C17_DefaultResolved ==
    /\ TransformCalled =>
          /\ transform # "DEFAULT"
          /\ argv.transform # "DEFAULT" => transform = argv.transform
          /\ (argv.transform = "DEFAULT" /\ fits.bitpix \in FloatBitpix) => transform = "LOG"
          /\ (argv.transform = "DEFAULT" /\ fits.bitpix \notin FloatBitpix) => transform = "RAW"
    /\ tpc \in {"main", "create", "enter"} => imageData = <<>>

\* a floating-point plane of several samples converted with the default transform
C17_Witness ==
    /\ tpc = "done" /\ ret = 0
    /\ argv.transform = "DEFAULT"
    /\ fits.bitpix \in FloatBitpix
    /\ transform = "LOG"
    /\ Len(imageData) > 1

\* the compatibility matrix of source types and kinds
Compatible(bitpix, t) ==
    \/ /\ bitpix \in {"BYTE_IMG", "SBYTE_IMG", "SHORT_IMG", "USHORT_IMG"}
       /\ t \in {"RAW", "NEGATIVE_RAW"}
    \/ /\ bitpix \in {"FLOAT_IMG", "DOUBLE_IMG"}
       /\ t \in {"LOG", "NEGATIVE_LOG", "LINEAR", "NEGATIVE_LINEAR", "SQRT",
                  "NEGATIVE_SQRT", "SQUARED", "NEGATIVE_SQUARED", "POWER",
                  "NEGATIVE_POWER"}

\* C18: createImageFromFITS succeeds exactly for the pairs of the matrix (on a
\* plane that has pixels); for every other pair, the 32-bit and 64-bit
\* integer types with every kind among them, the call ends by returning 1
\* and no sample is converted.
C18_MatrixClosed ==
    /\ (tpc = "done" /\ fits.bitpix # "OTHER_IMG") =>
          /\ ret = 0 <=> (Compatible(fits.bitpix, transform) /\ Len(fits.pixels) > 0)
          /\ ret # 0 => (ret = 1 /\ imageData = <<>>)
          /\ ret = 0 => Len(imageData) = fits.width * fits.height
    /\ (tpc \in {"done", "fault"} /\ Len(fits.pixels) > 0
           /\ ~Compatible(fits.bitpix, transform))
          => (tpc = "done" /\ ret = 1)

\* C19: a transform call whose len is not a positive multiple of width, or
\* whose width is 0 (width is a size_t), fails: it returns 1 and no sample is
\* read or written.
C19_InvalidGeometryRejected ==
    ~ValidGeometry(Len(rawData), fits.width) =>
        /\ tpc \in {"enter", "done"}
        /\ srcIdx = <<>>
        /\ imageData = <<>>
        /\ (tpc = "done" => ret = 1)

\* C20: range analysis of a plane of no samples is rejected: createImageFromFITS
\* returns 1 and no element of the buffer has been read.
C20_EmptyScanRejected ==
    (fits.bitpix \in FloatBitpix /\ Len(fits.pixels) = 0 /\ tpc \notin {"main", "create"}) =>
        /\ scanIdx = {}
        /\ tpc \in {"enter", "done"}
        /\ (tpc = "done" => ret = 1)

\* the integer part of sample * maxIntensity / (max + zero), clamped
LinearClaimed(raw, dmin, dmax) ==
    LET zero == IF dmin < 0 THEN -dmin ELSE 0
    IN  FIT_TO_RANGE(0, Max16, TruncDiv(raw * Max16, dmax + zero))

\* a LINEAR call has returned
LinearDone ==
    /\ tpc = "done" /\ ret = 0
    /\ transform = "LINEAR"
    /\ NoiseDisabled

\* C21: the LINEAR transform of a sample is the integer part of
\* sample * 65535 / (max + zero) clamped into [0, 65535], zero = -min if
\* min < 0 and 0 otherwise; min = 0, max = 100, sample = 50 gives 32767.
C21_LinearValue ==
    LinearDone =>
        /\ imageData[1] = LinearClaimed(fits.pixels[1], datamin, datamax)
        /\ (datamin = 0 /\ datamax = 100 /\ fits.pixels[1] = 50) => imageData[1] = 32767

\* C22: a transform call never modifies the raw buffer: during and after the
\* call every raw sample has the value read from the file, for every kind and
\* every noise setting.
C22_RawBufferUntouched ==
    TransformCalled => rawData = fits.pixels

\* the plane of call k failed: a read error, an unsupported transform, an
\* allocation failure or an encode failure
PlaneFailed(k) ==
    calls[k].out \notin {"ok", "notComparable", "readHeader", "decode", "residualName"}

\* C23: if processing of a plane fails (read error, unsupported transform,
\* allocation failure, encode failure) no later plane is processed and the
\* program exits with a non-zero status; it exits with 0 only if every
\* plane was processed successfully.
C23_FailureStopsBatch ==
    \A k \in 1..Len(calls) :
        PlaneFailed(k) =>
            /\ k = Len(calls)
            /\ mpc = "exit"
            /\ exitStatus # 0

\* C24: a failure to decode the compressed file during quality assessment
\* makes setupCompression return failure, and the batch exits with a
\* non-zero status instead of going on.
C24_DecodeFailureFatal ==
    \A k \in 1..Len(calls) :
        calls[k].out \in {"readHeader", "decode"} =>
            /\ calls[k].result # 0
            /\ k = Len(calls)
            /\ mpc = "exit"
            /\ exitStatus # 0

\* C25: every buffer allocated for a plane has been released exactly once
\* when the call for the plane returns, so that no buffer of an earlier
\* plane is live when the next plane begins.
C25_BuffersReleasedOnce ==
    mpc # "killed" => \A b \in Buffers : heap[b][2] = heap[b][1]

\* the planes the rule selects for the options first, last of n planes
SelectedPlanes(first, last, n) ==
    IF 1 <= first /\ first <= last /\ last <= n THEN first..last
    ELSE IF 1 <= first /\ first <= n THEN {first}
    ELSE 1..n

\* the program has converted a cube or a volume and exited with status 0
BatchDone ==
    /\ mpc = "exit" /\ exitStatus = 0
    /\ cube.naxis > 2

\* C26: the planes converted are first..last if 1 <= first <= last <= depth,
\* else the plane first alone if 1 <= first <= depth, else all planes; the
\* same for the stokes of a 4-D volume; a 3-D cube has one stoke pass per plane.
C26_PlaneSelection ==
    BatchDone =>
        LET frames == SelectedPlanes(opts.x, opts.y, cube.depth)
            stokes == IF cube.naxis > 3 THEN SelectedPlanes(opts.s1, opts.s2, cube.stokes)
                      ELSE {1}
        IN  /\ {<<calls[k].frame, calls[k].stoke>> : k \in 1..Len(calls)} = frames \X stokes
            /\ Len(calls) = Cardinality(frames) * Cardinality(stokes)

\* a volume converted whole because the last plane was given without the first
C26_Witness ==
    /\ BatchDone
    /\ cube.naxis = 4 /\ cube.depth > 1
    /\ opts.x = -1 /\ opts.y = 1
    /\ opts.s1 = cube.stokes /\ opts.s2 = -1
    /\ Len(calls) = cube.depth

\* C28: the ranges main computes satisfy 1 <= start <= end <= depth (and
\* stokes); every pair handed to createImageFromFITS is inside the file, and
\* the pairs are processed once each, frames ascending, stokes ascending
\* within a frame.
C28_RangeWithinCube ==
    (mpc \in {"loop", "exit", "killed"} /\ cube.naxis > 2) =>
        /\ 1 <= startFrame /\ startFrame <= endFrame /\ endFrame <= cube.depth
        /\ 1 <= startStoke /\ startStoke <= endStoke
        /\ endStoke <= (IF cube.naxis > 3 THEN cube.stokes ELSE 1)
        /\ \A k \in 1..Len(calls) :
              /\ ValidPlane(cube, calls[k].frame, calls[k].stoke)
              /\ calls[k].out # "badFrame"
              /\ calls[k].frame \in startFrame..endFrame
              /\ calls[k].stoke \in startStoke..endStoke
        /\ \A j, k \in 1..Len(calls) :
              j < k => \/ calls[j].frame < calls[k].frame
                       \/ /\ calls[j].frame = calls[k].frame
                          /\ calls[j].stoke < calls[k].stoke
        /\ exitStatus = 0 =>
              Len(calls) = (endFrame - startFrame + 1) * (endStoke - startStoke + 1)

\* a volume converted whole after options that lie outside the file
C28_Witness ==
    /\ BatchDone
    /\ cube.naxis = 4 /\ cube.depth > 1 /\ cube.stokes > 1
    /\ opts.x > cube.depth
    /\ opts.s1 = 0
    /\ Len(calls) = cube.depth * cube.stokes

\* C29: in a transform of a plane whose length is a positive multiple of its
\* width, every read of the raw buffer is at an index within [0, len); no
\* read faults; the indices read are distinct, so that once the loop is over
\* they are a permutation of 0 .. len - 1; output position ii is written at
\* iteration ii, once; and the index is within [0, len) as long as a read
\* is still to come.
C29_FlippingIndexPermutation ==
    LET len == Len(rawData)
    IN  (tpc \in {"loop", "done", "fault"} /\ ValidGeometry(len, fits.width)
            /\ Supported(fits.bitpix, transform)) =>
            /\ tpc # "fault"
            /\ \A k \in 1..Len(srcIdx) : 0 <= srcIdx[k] /\ srcIdx[k] < len
            /\ \A j, k \in 1..Len(srcIdx) : srcIdx[j] = srcIdx[k] => j = k
            /\ Len(srcIdx) = ii
            /\ Len(imageData) = ii
            /\ (ii < len => (0 <= index /\ index < len))
            /\ (tpc = "done" => {srcIdx[k] : k \in 1..Len(srcIdx)} = 0..(len - 1))

\* a plane of two rows or more has been transformed, and the index has left
\* the buffer after the last read
C29_Witness ==
    /\ tpc = "done"
    /\ ret = 0
    /\ fits.height >= 2
    /\ fits.width >= 2
    /\ Len(srcIdx) = Len(rawData)
    /\ index < 0

\* C27: getIntegerGaussianNoise returns 0 on every call made before both the
\* noise level and the maximum intensity have been supplied, the call that
\* supplies the second included, and stores what it is given meanwhile; it is
\* initialised exactly from that call on; later calls change none of the
\* stored noise level, maximum intensity, seed and standard deviation.
C27_NoiseInitialisation ==
    LET Supplied(k) ==
            /\ \E j \in 1..k : noiseCalls[j].noiseDB.set
            /\ \E j \in 1..k : noiseCalls[j].maxIntensity.set
        Before(k) == IF k = 1 THEN NoiseStaticsInit ELSE noiseCalls[k - 1].st
    IN  \A k \in 1..Len(noiseCalls) :
          LET c == noiseCalls[k]
              b == Before(k)
          IN  /\ c.st.initialised <=> Supplied(k)
              /\ ~Supplied(k - 1) =>
                    /\ c.ret = 0
                    /\ c.st.db = IF c.noiseDB.set THEN c.noiseDB.v ELSE b.db
                    /\ c.st.maxPixelIntensity =
                          IF c.maxIntensity.set THEN c.maxIntensity.v ELSE b.maxPixelIntensity
                    /\ c.st.generatorSeed = IF c.seed.set THEN c.seed.v ELSE b.generatorSeed
              /\ Supplied(k - 1) =>
                    /\ c.st.db = b.db
                    /\ c.st.maxPixelIntensity = b.maxPixelIntensity
                    /\ c.st.generatorSeed = b.generatorSeed
                    /\ c.st.rSeed = b.rSeed
                    /\ c.st.noiseDev = b.noiseDev

\* the two values were supplied by two calls, maximum intensity first, and a
\* third call then came with another noise level, maximum intensity and seed
C27_Witness ==
    /\ Len(noiseCalls) = 3
    /\ noiseCalls[1].maxIntensity = Ptr(Max16) /\ ~noiseCalls[1].noiseDB.set
    /\ noiseCalls[2].noiseDB = Ptr(20) /\ ~noiseCalls[2].maxIntensity.set
    /\ noiseCalls[2].ret = 0
    /\ noiseCalls[3].noiseDB = Ptr(30)
    /\ noiseCalls[3].maxIntensity = Ptr(Max8)
    /\ noiseCalls[3].seed = Ptr(1)
    /\ ns.initialised
    /\ ns.db = 20
    /\ ns.maxPixelIntensity = Max16

\* C30: once the command line is parsed, the output codec is JP2 whenever the
\* JPIP index is enabled, in whatever order -jpip and -o were given.
C30_JpipImpliesJP2 ==
    (pret = 0 /\ cparameters.jpip_on) => cparameters.cod_format = "CODEC_JP2"
====
